---- MODULE Spec2Model ----
(***************************************************************************)
(* Model of bash-builtins.rs: the per-builtin lifecycle generated by the   *)
(* builtin_metadata!() macro (load / call / unload around a               *)
(* Mutex<Option<Box<dyn Builtin>>>), the mapping of call results to exit   *)
(* codes, and the getopt string generated by #[derive(BuiltinOptions)].    *)
(***************************************************************************)
EXTENDS Integers, Sequences, FiniteSets, TLC

(***************************************************************************)
(* Bounds of the model.                                                    *)
(***************************************************************************)
\* Instances the constructor may build over one run.
MaxInstances == 2
\* Invocations of Builtin::call on one instance.
MaxCalls == 2
\* Variants of an enum that derives BuiltinOptions.
MaxVariants == 2
\* Words of the list the host hands to Args::new.
MaxWords == 3
\* Reads of one counter after it is bound or assigned.
MaxCount == 2
\* Runs of the teardown hook of the dynamic variables.
MaxTeardowns == 1
\* Buckets of the table of an associative array.
NBuckets == 2
\* Largest index array_set is given.
MaxIndex == 1
\* How many calls of next on one iterator return None.
MaxNones == 2

(***************************************************************************)
(* Program constants.                                                      *)
(***************************************************************************)
\* Option::None of the stored Option<Box<dyn Builtin>>; instances are 1..
None == 0
\* ffi::exit
EXECUTION_SUCCESS == 0
EXECUTION_FAILURE == 1
EX_USAGE == 258
\* RETVAL_ERROR of <NAME>_builtin_load and its success value
LOAD_RETVAL_ERROR == 0
LOAD_RETVAL_OK == 1
\* RETVAL_ERROR of __bash_builtin__func_<NAME>
CALL_RETVAL_ERROR == 1
\* .unwrap_or(101) of __bash_builtin__func_<NAME>
PANIC_RETVAL == 101
\* <NAME>_builtin_unload returns nothing
NO_RETVAL == -1
\* ffi::GETOPT_EOF, ffi::GETOPT_HELP
GETOPT_EOF == -1
GETOPT_HELP == -99

VARIABLES
    \* --- lifecycle (metadata_proc_macro.rs) ---
    ctor_kind,    \* "create" or "try_create": which constructor the macro got
    state_init,   \* __bash_builtin__state_init_<NAME>
    store,        \* static mut STATE (a reserved word here): the Mutex, [data, poisoned]
    inst,         \* every instance: "unborn", "boxed", "dropped", "leaked"
    drops,        \* how many times Drop::drop ran on each instance
    calls,        \* how many times Builtin::call was entered on each instance
    last,         \* what the most recent entry point did and returned
    prev,         \* tags of the (at most two) entry points before it
    \* --- option schema (options_derive_macro.rs) ---
    variants,     \* the enum's variants, as written by the user
    derived,      \* result of the derive: "pending", "ok", "compile_error"
    OPTIONS,      \* const OPTIONS: [u8; N]
    options_ret,  \* what options() returned (empty until it is called)
    decoded,      \* the latest from_option call: input, result, diagnostics
    \* --- argument cursor (args.rs) and the host's option scanner ---
    word_list,    \* the list the host built: its words, in order
    args,         \* struct Args: word_list (a position, past the end = null)
                  \* and reset_pending
    getopt,       \* the host's lhead, lcurrent, sp, loptend, list_optarg,
                  \* list_optopt, list_opttype
    iter,         \* the iterator that borrows args: "none", "options", "raw"
    alast,        \* what the most recent operation on args did
    trail,        \* how many option scans moved the cursor at their end,
                  \* and the words the raw iteration yielded since the cursor
                  \* was last placed by the scanner
    \* --- dynamic variables (variables/dynvars.rs) and the host's table ---
    shell,        \* the host's variables: name -> exists, hooked, ptr (1: a
                  \* block holds the value, 0: null), bytes
    heap,         \* how many blocks malloc has handed out and not yet freed
    STATE_INIT,   \* static STATE_INIT: AtomicBool
    dynvars,      \* static STATE: the Mutex<HashMap<CString, Box<dyn ..>>>
    atexit,       \* how many times remove_all_dynvars was registered, and ran
    dlast,        \* what the most recent operation on a variable did
    \* --- plain, indexed and associative variables (variables/) ---
    hash,         \* the host's hash function: key -> bucket of its table
    shell_var,    \* the host's variable named A: kind, value, array, table
    vlast,        \* what the most recent set / get did and returned
    assoc_iter    \* the AssocItemsIterator over A's table, and what its
                  \* calls to next have returned

lifeVars == <<ctor_kind, state_init, store, inst, drops, calls, last, prev>>
optVars == <<variants, derived, OPTIONS, options_ret, decoded>>
argVars == <<word_list, args, getopt, iter, alast, trail>>
dynVars == <<shell, heap, STATE_INIT, dynvars, atexit, dlast>>
varVars == <<hash, shell_var, vlast, assoc_iter>>
vars == <<lifeVars, optVars, argVars, dynVars, varVars>>

\* What an action of the lifecycle leaves alone, and what one of the option
\* schema leaves alone.
notLife == <<optVars, argVars, dynVars, varVars>>
notOpt == <<lifeVars, argVars, dynVars, varVars>>
notArgs == <<lifeVars, dynVars, varVars>>
notDyn == <<lifeVars, optVars, argVars, varVars>>
notVar == <<lifeVars, optVars, argVars, dynVars>>

(***************************************************************************)
(* Inputs.                                                                 *)
(***************************************************************************)
Ids == 1..MaxInstances

\* Word lists the host hands to the call entry point.
WordLists == {<<>>, <<"x">>, <<"panic">>}

\* Payloads of Error::ExitCode the instance may return.
ExitCodes == {0, 101, 127}

\* What Builtin::call of the instance does: returns Ok(()), returns one of
\* the Error variants, or panics.
Ok == [kind |-> "Ok", code |-> 0]
Usage == [kind |-> "Usage", code |-> 0]
GenericError == [kind |-> "GenericError", code |-> 0]
Panic == [kind |-> "Panic", code |-> 0]
ExitCode(n) == [kind |-> "ExitCode", code |-> n]
CallOutcomes == {Ok, Usage, GenericError, Panic} \cup {ExitCode(n) : n \in ExitCodes}
NoOutcome == [kind |-> "none", code |-> 0]

\* What the constructor does: `create` returns or panics, `try_create` may
\* also return Err.
CtorOutcomes(kind) ==
    IF kind = "create" THEN {"Ok", "Panic"} ELSE {"Ok", "Err", "Panic"}

(***************************************************************************)
(* errors.rs                                                               *)
(***************************************************************************)
\* Mutant: every error is printed when the call returns.
print_on_return_always(e) == TRUE

\* Error::print_on_return
print_on_return(e) ==
    LET ignore == e.kind \in {"Usage", "ExitCode"}
    IN ~ignore

\* Mutant: the catch-all arm yields the panic code, not EXECUTION_FAILURE.
exit_code_generic_101(e) ==
    CASE e.kind = "Usage" -> EX_USAGE
      [] e.kind = "ExitCode" -> e.code
      [] OTHER -> PANIC_RETVAL

\* Error::exit_code
exit_code(e) ==
    CASE e.kind = "Usage" -> EX_USAGE
      [] e.kind = "ExitCode" -> e.code
      [] OTHER -> EXECUTION_FAILURE

\* impl fmt::Display for Error
Display(e) ==
    CASE e.kind = "Usage" -> "usage error"
      [] e.kind = "ExitCode" -> "exit code"
      [] OTHER -> "generic error message"

(***************************************************************************)
(* The guarded store.                                                      *)
(***************************************************************************)
\* Mutex::new(v)
MutexNew(v) == [data |-> v, poisoned |-> FALSE]

\* Mutant: the mutex is built once and never again, whatever the flag says
\* (a std::sync::Once in place of the flag that unload clears).
global_state_never_reinit(init, S) ==
    [init |-> TRUE, mutex |-> S, overwritten |-> None]

\* fn __bash_builtin__state_<NAME>(): initialise STATE when the flag is
\* clear, set the flag, return the mutex.  STATE is a MaybeUninit, so the
\* assignment runs no destructor: what the old mutex held is `overwritten`,
\* neither dropped nor reachable any more.
global_state(init, S) ==
    IF init = FALSE
    THEN [init |-> TRUE, mutex |-> MutexNew(None), overwritten |-> S.data]
    ELSE [init |-> TRUE, mutex |-> S, overwritten |-> None]

\* Mutant: the lock is taken through the poison
\* (lock().unwrap_or_else(PoisonError::into_inner)).
store_access_ignores_poison(m) == "Ok"

\* store_access: lock() fails on a poisoned mutex.
store_access(m) == IF m.poisoned THEN "Err" ELSE "Ok"

\* Mutant: a guard that is released before the call can unwind through it.
guard_drop_never_poisons(m, panicking) == m

\* The MutexGuard is dropped when the closure ends; it poisons the mutex
\* when that happens during a panic.
guard_drop(m, panicking) == [m EXCEPT !.poisoned = @ \/ panicking]

\* The instance the next successful constructor yields.
NextId == 1 + Cardinality({i \in Ids : inst[i] # "unborn"})

\* Mutant: the value that is overwritten or forgotten has its destructor run
\* (a plain assignment, or a take() without the mem::forget).
Leak_runs_destructor(f, gone) ==
    IF gone = None THEN f ELSE [f EXCEPT ![gone] = "dropped"]

\* Bookkeeping of instances: `gone` is lost without a destructor,
\* `released` has its destructor run.
Leak(f, gone) == IF gone = None THEN f ELSE [f EXCEPT ![gone] = "leaked"]
Release(f, released) ==
    IF released = None THEN f ELSE [f EXCEPT ![released] = "dropped"]
CountDrop(d, released) ==
    IF released = None THEN d ELSE [d EXCEPT ![released] = @ + 1]

\* One word for an entry point's run, kept in `prev`.
Tag(l) ==
    CASE l.op = "load" -> IF l.stored # None THEN "load_ok"
                          ELSE IF l.ctor = "Err" THEN "load_err"
                          ELSE "load_fail"
      [] l.op = "unload" -> IF l.pre.poisoned THEN "unload_poisoned" ELSE "unload"
      [] l.op = "call" -> IF l.invoked = None THEN "call_refused" ELSE "call"
      [] OTHER -> "none"

Shift(p, l) ==
    IF l.op = "none" THEN p
    ELSE IF Len(p) < 2 THEN Append(p, Tag(l)) ELSE <<p[2], Tag(l)>>

NoRun == [op |-> "none", ret |-> NO_RETVAL, diag |-> <<>>, invoked |-> None,
          outcome |-> NoOutcome, words |-> <<>>, ctor |-> "none",
          dropped |-> None, stored |-> None,
          pre |-> MutexNew(None)]

(***************************************************************************)
(* <NAME>_builtin_load                                                     *)
(***************************************************************************)
\* Mutant: the Err arm of try_create returns the call entry point's
\* RETVAL_ERROR (1), which load's caller reads as success.
load_body_err_returns_1(c, m, id) ==
    CASE c = "Ok" ->
         [mutex |-> [m EXCEPT !.data = id], ret |-> LOAD_RETVAL_OK,
          diag |-> <<>>, stored |-> id, dropped |-> m.data,
          panicking |-> FALSE]
      [] c = "Err" ->
         [mutex |-> m, ret |-> CALL_RETVAL_ERROR,
          diag |-> <<"load error">>, stored |-> None, dropped |-> None,
          panicking |-> FALSE]
      [] OTHER ->
         [mutex |-> m, ret |-> LOAD_RETVAL_ERROR,
          diag |-> <<>>, stored |-> None, dropped |-> None,
          panicking |-> TRUE]

\* The closure of the load entry point once the lock is held: run the
\* constructor (outcome c, building instance id) and store what it built.
load_body(c, m, id) ==
    CASE c = "Ok" ->
         \* *lock = Some(state): the value held before is dropped; 1
         [mutex |-> [m EXCEPT !.data = id], ret |-> LOAD_RETVAL_OK,
          diag |-> <<>>, stored |-> id, dropped |-> m.data,
          panicking |-> FALSE]
      [] c = "Err" ->
         \* writeln!(stderr(), "<name>: error: {}", e); return 0
         [mutex |-> m, ret |-> LOAD_RETVAL_ERROR,
          diag |-> <<"load error">>, stored |-> None, dropped |-> None,
          panicking |-> FALSE]
      [] OTHER ->
         \* the constructor unwinds through the guard;
         \* catch_unwind(..).unwrap_or(RETVAL_ERROR)
         [mutex |-> m, ret |-> LOAD_RETVAL_ERROR,
          diag |-> <<>>, stored |-> None, dropped |-> None,
          panicking |-> TRUE]

builtin_load(c) ==
    LET g == global_state(state_init, store)
        m == g.mutex
        run == [NoRun EXCEPT !.op = "load", !.pre = store]
        r == load_body(c, m, NextId)
    IN
    /\ c \in CtorOutcomes(ctor_kind)
    /\ c = "Ok" => NextId \in Ids
    /\ state_init' = g.init
    /\ prev' = Shift(prev, last)
    /\ UNCHANGED <<ctor_kind, calls>>
    /\ IF store_access(m) = "Err"
       THEN \* log::error("invalid internal state"); return RETVAL_ERROR
            /\ store' = guard_drop(m, FALSE)
            /\ inst' = Leak(inst, g.overwritten)
            /\ drops' = drops
            /\ last' = [run EXCEPT !.ret = LOAD_RETVAL_ERROR,
                                   !.diag = <<"invalid internal state">>]
       ELSE /\ store' = guard_drop(r.mutex, r.panicking)
            /\ inst' = LET f == Release(Leak(inst, g.overwritten), r.dropped)
                       IN IF r.stored = None THEN f
                          ELSE [f EXCEPT ![r.stored] = "boxed"]
            /\ drops' = CountDrop(drops, r.dropped)
            /\ last' = [run EXCEPT !.ctor = c,
                                   !.ret = r.ret,
                                   !.diag = r.diag,
                                   !.stored = r.stored,
                                   !.dropped = r.dropped]
    /\ UNCHANGED notLife

Load == \E c \in {"Ok", "Err", "Panic"} : builtin_load(c)

(***************************************************************************)
(* __bash_builtin__func_<NAME>                                             *)
(***************************************************************************)
\* What the entry point returns and prints once Builtin::call has returned
\* or unwound with outcome o.
call_result(o) ==
    CASE o.kind = "Panic" -> [ret |-> PANIC_RETVAL, diag |-> <<>>]
      [] o.kind = "Ok" -> [ret |-> EXECUTION_SUCCESS, diag |-> <<>>]
      [] OTHER -> [ret |-> exit_code(o),
                   diag |-> IF print_on_return(o) THEN <<Display(o)>> ELSE <<>>]

builtin_func(words, o) ==
    LET g == global_state(state_init, store)
        m == g.mutex
        run == [NoRun EXCEPT !.op = "call", !.words = words, !.pre = store]
    IN
    /\ state_init' = g.init
    /\ prev' = Shift(prev, last)
    /\ inst' = Leak(inst, g.overwritten)
    /\ UNCHANGED <<ctor_kind, drops>>
    /\ IF store_access(m) = "Err"
       THEN \* log::error("invalid internal state"); return RETVAL_ERROR
            /\ store' = guard_drop(m, FALSE)
            /\ calls' = calls
            /\ last' = [run EXCEPT !.ret = CALL_RETVAL_ERROR,
                                   !.diag = <<"invalid internal state">>]
       ELSE IF m.data = None
       THEN \* log::error("builtin not initialized"); RETVAL_ERROR
            /\ store' = guard_drop(m, FALSE)
            /\ calls' = calls
            /\ last' = [run EXCEPT !.ret = CALL_RETVAL_ERROR,
                                   !.diag = <<"builtin not initialized">>]
       ELSE \* state.call(&mut args)
            /\ calls[m.data] < MaxCalls
            /\ calls' = [calls EXCEPT ![m.data] = @ + 1]
            /\ store' = guard_drop(m, o.kind = "Panic")
            /\ last' = [run EXCEPT !.invoked = m.data,
                                   !.outcome = o,
                                   !.ret = call_result(o).ret,
                                   !.diag = call_result(o).diag]
    /\ UNCHANGED notLife

Call == \E words \in WordLists, o \in CallOutcomes : builtin_func(words, o)

(***************************************************************************)
(* <NAME>_builtin_unload                                                   *)
(***************************************************************************)
builtin_unload ==
    \* state_init.store(false) comes first, so the global_state() that
    \* follows it always builds a fresh mutex over the old one.
    LET g == global_state(FALSE, store)
        m == g.mutex
        run == [NoRun EXCEPT !.op = "unload", !.pre = store]
    IN
    /\ state_init' = g.init
    /\ prev' = Shift(prev, last)
    /\ UNCHANGED <<ctor_kind, calls>>
    /\ IF store_access(m) = "Ok"
       THEN \* *lock = None: the value held before is dropped
            /\ store' = guard_drop([m EXCEPT !.data = None], FALSE)
            /\ inst' = Release(Leak(inst, g.overwritten), m.data)
            /\ drops' = CountDrop(drops, m.data)
            /\ last' = [run EXCEPT !.dropped = m.data]
       ELSE \* poison.into_inner().take(), then mem::forget
            /\ store' = [m EXCEPT !.data = None]
            /\ inst' = Leak(Leak(inst, g.overwritten), m.data)
            /\ drops' = drops
            /\ last' = run
    /\ UNCHANGED notLife

Unload == builtin_unload

(***************************************************************************)
(* #[derive(BuiltinOptions)]: options_derive_macro.rs, convert.rs          *)
(***************************************************************************)
\* Characters a user may write in #[opt = '...'], as code points:
\* 'a', 'b', '7', '-', and U+0161, whose low byte is that of 'a'.
OptChars == {97, 98, 55, 45, 353}

\* Types of a variant's field.  `option` tells the Option<T> wrapper, whose
\* impl of FromWordPointer differs from every other one.
Ty(base) == [option |-> FALSE, base |-> base]
OptionOf(t) == [option |-> TRUE, base |-> t.base]
FieldTypes == {Ty("i64"), Ty("str"), OptionOf(Ty("str"))}

\* A variant as written: its #[opt] character and its fields (syn::Fields).
Unit(c) == [option |-> c, shape |-> "Unit", types |-> <<>>]
Unnamed(c, ts) == [option |-> c, shape |-> "Unnamed", types |-> ts]
Named(c, ts) == [option |-> c, shape |-> "Named", types |-> ts]
VariantInputs ==
    {Unit(c) : c \in OptChars}
    \cup {Unnamed(c, <<t>>) : c \in OptChars, t \in FieldTypes}
    \cup {Unnamed(c, <<Ty("i64"), Ty("str")>>) : c \in OptChars}
    \cup {Named(c, <<Ty("str")>>) : c \in OptChars}

\* enum Opt of tests/options_derive_macro.rs: a, b(i64), c(&str), d(&Path),
\* e(String), f(Option<&str>), g(PathBuf).
TestEnum ==
    << Unit(97), Unnamed(98, <<Ty("i64")>>), Unnamed(99, <<Ty("str")>>),
       Unnamed(100, <<Ty("Path")>>), Unnamed(101, <<Ty("String")>>),
       Unnamed(102, <<OptionOf(Ty("str"))>>),
       Unnamed(103, <<Ty("PathBuf")>>) >>

Enums ==
    {TestEnum} \cup UNION {[1..n -> VariantInputs] : n \in 0..MaxVariants}

\* char::is_ascii_alphanumeric
is_ascii_alphanumeric(c) ==
    \/ c \in 48..57
    \/ c \in 65..90
    \/ c \in 97..122

\* Mutant: the impl for Option<T> does not override the constant.
OPTSTR_ARGUMENT_default_only(t) == 58

\* FromWordPointer::OPTSTR_ARGUMENT: b';' in the impl for Option<T>, the
\* trait's default b':' in every other impl.
OPTSTR_ARGUMENT(t) == IF t.option THEN 59 ELSE 58

\* argument_type of a VariantOption that has no field.
NoType == [option |-> FALSE, base |-> "none"]

\* parse_variant: the character must be ASCII alphanumeric and new, the
\* fields a unit or one unnamed field.
parse_variant(v, found_options) ==
    IF ~is_ascii_alphanumeric(v.option) THEN [ok |-> FALSE]
    ELSE IF v.option \in found_options THEN [ok |-> FALSE]
    ELSE IF v.shape = "Unit"
         THEN [ok |-> TRUE, option |-> v.option, argument_type |-> NoType]
    ELSE IF v.shape = "Unnamed"
         THEN IF Len(v.types) > 1 THEN [ok |-> FALSE]
              ELSE [ok |-> TRUE, option |-> v.option,
                    argument_type |-> v.types[1]]
    ELSE [ok |-> FALSE]

\* parse_variants: every variant in declaration order, stopping at the
\* first error.
RECURSIVE parse_variants_from(_, _, _)
parse_variants_from(vs, found_options, acc) ==
    IF vs = <<>> THEN [ok |-> TRUE, variants |-> acc]
    ELSE LET r == parse_variant(Head(vs), found_options)
         IN IF ~r.ok THEN [ok |-> FALSE, variants |-> <<>>]
            ELSE parse_variants_from(
                     Tail(vs),
                     found_options \cup {r.option},
                     Append(acc, [option |-> r.option,
                                  argument_type |-> r.argument_type]))

parse_variants(input) == parse_variants_from(input, {}, <<>>)

\* The loop of options_string: the option as a byte (`as u8`), then the
\* type's OPTSTR_ARGUMENT when the variant has a field.
RECURSIVE options_string_loop(_, _)
options_string_loop(vs, opts) ==
    IF vs = <<>> THEN opts
    ELSE LET variant == Head(vs)
             opt_byte == variant.option % 256
             with_opt == Append(opts, opt_byte)
         IN options_string_loop(
                Tail(vs),
                IF variant.argument_type # NoType
                THEN Append(with_opt, OPTSTR_ARGUMENT(variant.argument_type))
                ELSE with_opt)

\* Mutant: the terminating 0 is not pushed.
options_string_without_nul(vs) == options_string_loop(vs, <<>>)

\* options_string: the loop, then opts.push(0).
options_string(vs) == Append(options_string_loop(vs, <<>>), 0)

\* macro_impl: a compile error when the variants do not parse, else the
\* generated items.
macro_impl ==
    LET parsed == parse_variants(variants)
    IN
    /\ derived = "pending"
    /\ IF parsed.ok
       THEN /\ derived' = "ok"
            /\ OPTIONS' = options_string(parsed.variants)
       ELSE /\ derived' = "compile_error"
            /\ OPTIONS' = <<>>
    /\ UNCHANGED <<variants, options_ret, decoded>>
    /\ UNCHANGED notOpt

\* fn options() -> &'static [u8] { &OPTIONS[..] }
options ==
    /\ derived = "ok"
    /\ options_ret = <<>>
    /\ options_ret' = OPTIONS
    /\ UNCHANGED <<variants, derived, OPTIONS, decoded>>
    /\ UNCHANGED notOpt

(***************************************************************************)
(* Decoding one scanned option: convert.rs and the generated from_option.  *)
(***************************************************************************)
\* The `arg` of from_option, an Option<&CStr>.
NoArg == [some |-> FALSE, bytes |-> <<>>]
SomeArg(bytes) == [some |-> TRUE, bytes |-> bytes]

\* Payloads the scanner may hand over, as bytes: "", "abc", "0123", "-7",
\* "+", U+00E9 in UTF-8, and the lone byte 0xFF, which is not UTF-8.
Payloads ==
    { <<>>, <<97, 98, 99>>, <<48, 49, 50, 51>>, <<45, 55>>, <<43>>,
      <<195, 169>>, <<255>> }
ArgInputs == {NoArg} \cup {SomeArg(p) : p \in Payloads}

\* Option codes the scanner may hand over: 'a', 'b', 'c', 'e', 'f', '7',
\* 'z' and '?'.
OptCodes == {97, 98, 99, 101, 102, 55, 122, 63}

\* CStr::to_str: the bytes must be UTF-8.  One-byte and two-byte forms are
\* told apart; the payloads above hold no longer form.
RECURSIVE is_utf8(_)
is_utf8(s) ==
    IF s = <<>> THEN TRUE
    ELSE IF Head(s) < 128 THEN is_utf8(Tail(s))
    ELSE IF Head(s) \in 194..223 /\ Len(s) >= 2 /\ s[2] \in 128..191
         THEN is_utf8(Tail(Tail(s)))
    ELSE FALSE

\* Decoded values.  `wrap` tells a plain T from the Some(T) and the None of
\* an Option<T>; `kind` is how the bytes were read.
Value(kind, bytes, num) ==
    [wrap |-> "plain", kind |-> kind, bytes |-> bytes, num |-> num]
UnitValue == Value("unit", <<>>, 0)
SomeValue(v) == [v EXCEPT !.wrap = "Some"]
NoneValue == [wrap |-> "None", kind |-> "none", bytes |-> <<>>, num |-> 0]

FromOk(v) == [ok |-> TRUE, value |-> v]
FromErr == [ok |-> FALSE, value |-> UnitValue]

\* The digits of a decimal number, most significant first.
RECURSIVE digits_value(_, _)
digits_value(s, acc) ==
    IF s = <<>> THEN acc
    ELSE digits_value(Tail(s), acc * 10 + (Head(s) - 48))

\* <i64 as FromStr>::from_str: an optional sign, then one digit at least.
\* The payloads above are too short to overflow an i64.
i64_from_str(s) ==
    IF s = <<>> THEN FromErr
    ELSE LET signed == Head(s) \in {43, 45}
             digits == IF signed THEN Tail(s) ELSE s
         IN IF digits = <<>> THEN FromErr
            ELSE IF \E i \in 1..Len(digits) : digits[i] \notin 48..57
                 THEN FromErr
            ELSE LET n == digits_value(digits, 0)
                 IN FromOk(Value("int", <<>>, IF Head(s) = 45 THEN 0 - n ELSE n))

\* FromWordPointer::from_cstr of the inner type `base`.
from_cstr(base, s) ==
    CASE base \in {"str", "String"} ->
             IF is_utf8(s) THEN FromOk(Value("text", s, 0)) ELSE FromErr
      [] base \in {"Path", "PathBuf"} -> FromOk(Value("path", s, 0))
      [] base = "i64" -> IF is_utf8(s) THEN i64_from_str(s) ELSE FromErr

\* What a decoding step gives back: the Result and the calls it made to
\* sh_needarg (log::missing_argument), builtin_usage (log::show_usage) and
\* builtin_error (error!).
Extracted(res, needarg, usage, error) ==
    [result |-> res, needarg_calls |-> needarg, usage_calls |-> usage,
     error_calls |-> error]
ResOk(v) == [kind |-> "Ok", value |-> v]
ResUsage == [kind |-> "Usage", value |-> UnitValue]

\* Mutant: a required payload that is absent is reported by the usage text.
extract_value_default_shows_usage(base, arg) ==
    IF ~arg.some THEN Extracted(ResUsage, 0, 1, 0)
    ELSE LET r == from_cstr(base, arg.bytes)
         IN IF r.ok THEN Extracted(ResOk(r.value), 0, 0, 0)
            ELSE Extracted(ResUsage, 0, 0, 1)

\* FromWordPointer::extract_value, the trait's default body.
extract_value_default(base, arg) ==
    IF ~arg.some THEN Extracted(ResUsage, 1, 0, 0)
    ELSE LET r == from_cstr(base, arg.bytes)
         IN IF r.ok THEN Extracted(ResOk(r.value), 0, 0, 0)
            ELSE Extracted(ResUsage, 0, 0, 1)

\* Mutant: Option<T> keeps the trait's default body.
extract_value_option_as_default(base, arg) ==
    IF ~arg.some THEN Extracted(ResUsage, 1, 0, 0)
    ELSE LET r == from_cstr(base, arg.bytes)
         IN IF r.ok THEN Extracted(ResOk(SomeValue(r.value)), 0, 0, 0)
            ELSE Extracted(ResUsage, 0, 0, 1)

\* extract_value of impl FromWordPointer for Option<T>.
extract_value_option(base, arg) ==
    IF ~arg.some THEN Extracted(ResOk(NoneValue), 0, 0, 0)
    ELSE LET r == from_cstr(base, arg.bytes)
         IN IF r.ok THEN Extracted(ResOk(SomeValue(r.value)), 0, 0, 0)
            ELSE Extracted(ResUsage, 0, 0, 1)

\* <#argument_type as FromWordPointer>::extract_value(arg)
extract_value(t, arg) ==
    IF t.option THEN extract_value_option(t.base, arg)
    ELSE extract_value_default(t.base, arg)

\* Mutant: the catch-all arm reports a missing argument.
from_option_fallthrough_needarg == Extracted(ResUsage, 1, 0, 0)

\* The `_` arm of the generated match: show_usage(), return Err(Usage).
from_option_fallthrough == Extracted(ResUsage, 0, 1, 0)

\* The generated match of from_option over the parsed variants: the arm of
\* the variant whose option is `opt`, else the catch-all arm.
from_option_match(vs, opt, arg) ==
    IF \E i \in 1..Len(vs) : vs[i].option = opt
    THEN LET variant == vs[CHOOSE i \in 1..Len(vs) : vs[i].option = opt]
         IN IF variant.argument_type = NoType
            THEN Extracted(ResOk(UnitValue), 0, 0, 0)
            ELSE extract_value(variant.argument_type, arg)
    ELSE from_option_fallthrough

\* Before from_option is called.
NoDecode ==
    [called |-> FALSE, opt |-> 0, arg |-> NoArg,
     out |-> Extracted(ResUsage, 0, 0, 0)]

\* fn from_option(opt, arg) of the derived impl, called by the scanner loop
\* or directly.
from_option ==
    /\ derived = "ok"
    /\ \E opt \in OptCodes, arg \in ArgInputs :
         decoded' = [called |-> TRUE, opt |-> opt, arg |-> arg,
                     out |-> from_option_match(
                                 parse_variants(variants).variants, opt, arg)]
    /\ UNCHANGED <<variants, derived, OPTIONS, options_ret>>
    /\ UNCHANGED notOpt

(***************************************************************************)
(* The argument cursor: args.rs, over the host's option scanner.           *)
(***************************************************************************)
\* Words of a command line, as bytes: "-a", "-b", "-f", "--", "--help"
\* and "7".  With the options of TestEnum, -a takes no payload, -b
\* requires one and -f may have one; for no_options, which declares no
\* option, the three are unknown.
ArgWords ==
    { <<45, 97>>, <<45, 98>>, <<45, 102>>, <<45, 45>>,
      <<45, 45, 104, 101, 108, 112>>, <<55>> }

\* The list of the test update_word_list_after_arguments: "abc", "def".
TestWords == << <<97, 98, 99>>, <<100, 101, 102>> >>

ArgWordLists ==
    {TestWords} \cup UNION {[1..n -> ArgWords] : n \in 0..MaxWords}

\* A position in the list stands for the pointer to that node; the position
\* past the last node is the null pointer, so `current.next` is p + 1.
Null(ws) == Len(ws) + 1

\* word[k] of a C string, k counted from 0; 0 is the terminating NUL.
CharAt(w, k) == IF k + 1 <= Len(w) THEN w[k + 1] ELSE 0

\* reset_internal_getopt() of the host.
reset_internal_getopt(g, ws) ==
    [g EXCEPT !.lhead = Null(ws), !.lcurrent = Null(ws),
              !.loptend = Null(ws), !.sp = 1]

\* internal_getopt(list, opts) of the host: the results it may give, each
\* with the scanner's state afterwards and the diagnostics it printed
\* (sh_invalidopt, sh_needarg).  Two points differ between versions of the
\* host and are left open: whether an optional payload is taken from the
\* next word, and whether the scanner moves on after a missing payload.
internal_getopt(g, ws, list, opts) ==
    LET null == Null(ws)
        R(c, h, diag) == [ret |-> c, g |-> h, host_errors |-> diag]
    IN
    IF list = null
    THEN {R(GETOPT_EOF, [g EXCEPT !.list_optarg = NoArg, !.loptend = null], 0)}
    ELSE
    LET g1 == IF list # g.lhead \/ g.lhead = null
              THEN [g EXCEPT !.sp = 1, !.lcurrent = list, !.lhead = list,
                             !.loptend = null]
              ELSE g
        cur == g1.lcurrent
        w == IF cur = null THEN <<>> ELSE ws[cur]
        g2 == IF g1.sp = 1 THEN [g1 EXCEPT !.list_opttype = CharAt(w, 0)]
              ELSE g1
        c == CharAt(w, g2.sp)
        g3 == [g2 EXCEPT !.list_optopt = c]
        known == c # 58 /\ \E i \in 1..Len(opts) : opts[i] = c
        marker == opts[(CHOOSE i \in 1..Len(opts) : opts[i] = c) + 1]
        last_char == CharAt(w, g3.sp + 1) = 0
        moved == IF last_char THEN cur + 1 ELSE cur
    IN
    IF g1.sp = 1 /\ (cur = null \/ CharAt(w, 0) # 45 \/ CharAt(w, 1) = 0)
    THEN {R(GETOPT_EOF, [g1 EXCEPT !.lhead = null, !.loptend = cur], 0)}
    ELSE IF g1.sp = 1 /\ w = <<45, 45, 104, 101, 108, 112>>
    THEN {R(GETOPT_HELP, [g1 EXCEPT !.lhead = null, !.loptend = cur], 0)}
    ELSE IF g1.sp = 1 /\ w = <<45, 45>>
    THEN {R(GETOPT_EOF, [g1 EXCEPT !.lhead = null, !.loptend = cur + 1], 0)}
    ELSE IF ~known
    THEN {R(63, [g3 EXCEPT !.sp = IF last_char THEN 1 ELSE @ + 1,
                           !.lcurrent = moved,
                           !.list_optarg = NoArg,
                           !.loptend = IF moved # null THEN moved + 1 ELSE @],
            1)}
    ELSE IF marker \in {58, 59}
    THEN IF ~last_char
         THEN \* -l2 stands for -l 2
              {R(c, [g3 EXCEPT !.list_optarg =
                                   SomeArg(SubSeq(w, g3.sp + 2, Len(w))),
                               !.lcurrent = cur + 1, !.sp = 1], 0)}
         ELSE LET taken == R(c, [g3 EXCEPT !.list_optarg = SomeArg(ws[cur + 1]),
                                           !.lcurrent = cur + 2, !.sp = 1], 0)
                  absent == R(c, [g3 EXCEPT !.list_optarg = NoArg,
                                            !.lcurrent = cur + 1, !.sp = 1], 0)
              IN IF cur + 1 # null /\ marker = 58 THEN {taken}
                 ELSE IF cur + 1 # null /\ CharAt(ws[cur + 1], 0) # 45
                      THEN {taken, absent}
                 ELSE IF marker = 59 THEN {absent}
                 ELSE {R(63, [g3 EXCEPT !.list_optarg = NoArg,
                                        !.lcurrent = n, !.sp = 1], 1)
                        : n \in {cur, cur + 1}}
    ELSE {R(c, [g3 EXCEPT !.sp = IF last_char THEN 1 ELSE @ + 1,
                          !.lcurrent = moved,
                          !.list_optarg = NoArg], 0)}

\* What next() of an iterator or finished() reports: its name, what it returned, the
\* cursor before it, and its calls to builtin_error and builtin_help.
Did(op, ret, pre, errors, helps) ==
    [op |-> op, ret |-> ret, pre |-> pre, errors |-> errors, helps |-> helps]

\* Mutant: every use resets the scanner, not only the first one.
ensure_reset_every_time(a, g, ws) ==
    [args |-> [a EXCEPT !.reset_pending = FALSE],
     getopt |-> [g EXCEPT !.lhead = Len(ws) + 1, !.lcurrent = Len(ws) + 1,
                          !.loptend = Len(ws) + 1, !.sp = 1,
                          !.list_optarg = NoArg, !.list_optopt = 0]]

\* Args::ensure_reset: the first use resets the scanner and its two
\* out-parameters, later uses do nothing.
ensure_reset(a, g, ws) ==
    IF a.reset_pending
    THEN [args |-> [a EXCEPT !.reset_pending = FALSE],
          getopt |-> [reset_internal_getopt(g, ws)
                          EXCEPT !.list_optarg = NoArg, !.list_optopt = 0]]
    ELSE [args |-> a, getopt |-> g]

\* Args::options: ensure_reset, then the iterator that borrows args.
Args_options ==
    LET r == ensure_reset(args, getopt, word_list)
    IN
    /\ iter = "none"
    /\ args' = r.args
    /\ getopt' = r.getopt
    /\ iter' = "options"
    /\ alast' = Did("options", "iterator", args.word_list, 0, 0)
    /\ UNCHANGED <<word_list, trail>>
    /\ UNCHANGED <<optVars, notArgs>>

\* Mutant: at the end of the options the cursor goes back to the head of
\* the list.
OptionsIterator_eof_rewinds(a, g) == [a EXCEPT !.word_list = 1]

\* Mutant: at the end of the options the cursor is left where it was.
OptionsIterator_eof_keeps_cursor(a, g) == a

\* The GETOPT_EOF arm of OptionsIterator::next:
\* self.args.word_list = ffi::loptend.
OptionsIterator_eof(a, g) == [a EXCEPT !.word_list = g.loptend]

\* OptionsIterator::next
OptionsIterator_next ==
    /\ iter = "options"
    /\ \E r \in internal_getopt(getopt, word_list, args.word_list, OPTIONS) :
         /\ getopt' = r.g
         /\ CASE r.ret = GETOPT_EOF ->
                   /\ args' = OptionsIterator_eof(args, r.g)
                   /\ alast' = Did("options_next", "None", args.word_list, 0, 0)
                   /\ trail' = [eof |-> TRUE, from |-> args'.word_list,
                                seen |-> <<>>,
                                passes |-> IF args'.word_list # args.word_list
                                           THEN trail.passes + 1
                                           ELSE trail.passes]
                   /\ UNCHANGED decoded
              [] r.ret = GETOPT_HELP ->
                   /\ alast' = Did("options_next", "Usage", args.word_list, 0, 1)
                   /\ UNCHANGED <<args, trail, decoded>>
              [] OTHER ->
                   /\ decoded' =
                        [called |-> TRUE, opt |-> r.ret,
                         arg |-> r.g.list_optarg,
                         out |-> from_option_match(
                                     parse_variants(variants).variants,
                                     r.ret, r.g.list_optarg)]
                   /\ alast' = Did("options_next", "Some", args.word_list, 0, 0)
                   /\ UNCHANGED <<args, trail>>
    /\ UNCHANGED <<word_list, iter>>
    /\ UNCHANGED <<variants, derived, OPTIONS, options_ret, notArgs>>

\* Args::raw_arguments (string_arguments and path_arguments map over it):
\* ensure_reset, then WordListIterator(self).
raw_arguments ==
    LET r == ensure_reset(args, getopt, word_list)
    IN
    /\ iter = "none"
    /\ args' = r.args
    /\ getopt' = r.getopt
    /\ iter' = "raw"
    /\ alast' = Did("raw_arguments", "iterator", args.word_list, 0, 0)
    /\ UNCHANGED <<word_list, trail>>
    /\ UNCHANGED <<optVars, notArgs>>

\* self.0.word_list = current.next
WordListIterator_advance(a) == [a EXCEPT !.word_list = @ + 1]

\* WordListIterator::next
WordListIterator_next ==
    /\ iter = "raw"
    /\ IF args.word_list = Null(word_list)
       THEN /\ alast' = Did("raw_next", "None", args.word_list, 0, 0)
            /\ UNCHANGED <<args, trail>>
       ELSE /\ args' = WordListIterator_advance(args)
            /\ alast' = Did("raw_next", "Some", args.word_list, 0, 0)
            /\ trail' = [trail EXCEPT
                            !.seen = Append(@, word_list[args.word_list])]
    /\ UNCHANGED <<word_list, getopt, iter>>
    /\ UNCHANGED <<optVars, notArgs>>

\* The iterator goes out of scope: the borrow of args ends.
drop_iterator ==
    /\ iter # "none"
    /\ iter' = "none"
    /\ UNCHANGED <<word_list, args, getopt, alast, trail>>
    /\ UNCHANGED <<optVars, notArgs>>

\* Mutant: finished accepts whatever is left.
finished_result_always_ok(a, ws) == Did("finished", "Ok", a.word_list, 0, 0)

\* The body of Args::finished.
finished_result(a, ws) ==
    IF a.word_list = Null(ws)
    THEN Did("finished", "Ok", a.word_list, 0, 0)
    ELSE Did("finished", "Usage", a.word_list, 1, 0)

\* Args::finished
finished ==
    /\ iter = "none"
    /\ alast' = finished_result(args, word_list)
    /\ UNCHANGED <<word_list, args, getopt, iter, trail>>
    /\ UNCHANGED <<optVars, notArgs>>

\* Args::is_empty: self.word_list.is_null()
is_empty ==
    /\ iter = "none"
    /\ alast' = Did("is_empty",
                    IF args.word_list = Null(word_list) THEN "true" ELSE "false",
                    args.word_list, 0, 0)
    /\ UNCHANGED <<word_list, args, getopt, iter, trail>>
    /\ UNCHANGED <<optVars, notArgs>>

\* Args::no_options: ffi::no_options(self.word_list) of the host, which
\* resets its scanner, scans for one option with none declared, and shows
\* the help (--help) or the usage (any other option); Usage unless it
\* returned 0.
Args_no_options ==
    /\ iter = "none"
    /\ \E r \in internal_getopt(reset_internal_getopt(getopt, word_list),
                                word_list, args.word_list, <<>>) :
         /\ getopt' = r.g
         /\ alast' = Did("no_options",
                         IF r.ret = GETOPT_EOF THEN "Ok" ELSE "Usage",
                         args.word_list, 0,
                         IF r.ret = GETOPT_HELP THEN 1 ELSE 0)
    /\ UNCHANGED <<word_list, args, iter, trail>>
    /\ UNCHANGED <<optVars, notArgs>>

\* Before Args::new.
ArgsIdle ==
    /\ word_list = <<>>
    /\ args = [word_list |-> 1, reset_pending |-> TRUE]
    /\ getopt = [lhead |-> 1, lcurrent |-> 1, sp |-> 1, loptend |-> 1,
                 list_optarg |-> NoArg, list_optopt |-> 0, list_opttype |-> 0]
    /\ iter = "none"
    /\ alast = Did("none", "none", 1, 0, 0)
    /\ trail = [eof |-> FALSE, from |-> 1, seen |-> <<>>, passes |-> 0]

\* Args::new on a list of the host, the scanner being either at rest or as
\* an earlier command left it in the middle of a scan: lhead on a node at
\* the address of the new list's head, lcurrent past its words, and the
\* out-parameters of the earlier command's last option.
ArgsInit ==
    /\ word_list \in ArgWordLists
    /\ args = [word_list |-> 1, reset_pending |-> TRUE]
    /\ \E stale \in BOOLEAN :
         getopt = IF stale
                  THEN [lhead |-> 1, lcurrent |-> Null(word_list), sp |-> 1,
                        loptend |-> Null(word_list),
                        list_optarg |-> SomeArg(<<55>>),
                        list_optopt |-> 98, list_opttype |-> 45]
                  ELSE [lhead |-> Null(word_list),
                        lcurrent |-> Null(word_list), sp |-> 1,
                        loptend |-> Null(word_list),
                        list_optarg |-> NoArg,
                        list_optopt |-> 0, list_opttype |-> 0]
    /\ iter = "none"
    /\ alast = Did("new", "none", 1, 0, 0)
    /\ trail = [eof |-> FALSE, from |-> 1, seen |-> <<>>, passes |-> 0]

(***************************************************************************)
(* Dynamic variables: variables/dynvars.rs and variables/mod.rs, over the  *)
(* host's variable table.                                                  *)
(***************************************************************************)
\* Names of shell variables, as bytes: "X" and "FOO"; and "X\0Y", which
\* CString::new refuses.
DynNames == { <<88>>, <<70, 79, 79>> }
NameInputs == DynNames \cup { <<88, 0, 89>> }

\* CString::new(bytes) fails when a byte is NUL.
has_nul(bytes) == \E i \in 1..Len(bytes) : bytes[i] = 0

\* Values the host assigns: none (a null pointer), "1000", "abc".
AssignInputs ==
    {NoArg, SomeArg(<<49, 48, 48, 48>>), SomeArg(<<97, 98, 99>>)}

\* A variable the host does not have, and an address that is null.
NoVar == [exists |-> FALSE, hooked |-> FALSE, ptr |-> 0, bytes |-> <<>>]

\* The instances bound in the examples: Counter(0), and one whose get
\* returns None and whose set does nothing.
NoDynVar == [bound |-> FALSE, kind |-> "none", n |-> 0]
DynVarInputs ==
    { [bound |-> TRUE, kind |-> "Counter", n |-> 0],
      [bound |-> TRUE, kind |-> "Empty", n |-> 0] }

\* format!("{}", n) of an isize.
RECURSIVE format_digits(_)
format_digits(n) ==
    IF n < 10 THEN <<48 + n>>
    ELSE Append(format_digits(n \div 10), 48 + (n % 10))
format_isize(n) ==
    IF n < 0 THEN <<45>> \o format_digits(0 - n) ELSE format_digits(n)

\* DynamicVariable::get: Counter returns its value as text and adds one.
dyn_get(e) ==
    IF e.kind = "Counter"
    THEN [some |-> TRUE, bytes |-> format_isize(e.n),
          entry |-> [e EXCEPT !.n = @ + 1]]
    ELSE [some |-> FALSE, bytes |-> <<>>, entry |-> e]

\* DynamicVariable::set: Counter parses the text, and reports an error and
\* keeps its value when the text is no number.
dyn_set(e, bytes) ==
    LET r == IF is_utf8(bytes) THEN i64_from_str(bytes) ELSE FromErr
    IN IF e.kind # "Counter" THEN [entry |-> e, errors |-> 0]
       ELSE IF r.ok THEN [entry |-> [e EXCEPT !.n = r.value.num], errors |-> 0]
       ELSE [entry |-> e, errors |-> 1]

\* Mutant: the table is built and the hook registered by every call.
dyn_global_state_every_call(init, S, reg) ==
    [init |-> TRUE,
     mutex |-> [data |-> [nm \in DynNames |-> NoDynVar], poisoned |-> FALSE],
     atexit |-> [reg EXCEPT !.registered = @ + 1]]

\* fn global_state() of dynvars.rs: the first call after STATE_INIT is
\* false writes a new, empty table over STATE and registers
\* remove_all_dynvars with atexit; the lock is taken whether poisoned or
\* not (e.into_inner()).
dyn_global_state(init, S, reg) ==
    IF ~init
    THEN [init |-> TRUE,
          mutex |-> [data |-> [nm \in DynNames |-> NoDynVar],
                     poisoned |-> FALSE],
          atexit |-> [reg EXCEPT !.registered = @ + 1]]
    ELSE [init |-> TRUE, mutex |-> S, atexit |-> reg]

\* Mutant: a poisoned lock is refused, so nothing is found behind it.
dyn_lookup_refuses_poison(S, name) ==
    IF S.poisoned THEN NoDynVar ELSE S.data[name]

\* global_state().get_mut(name): the entry of the name behind the lock,
\* which is taken whether it is poisoned or not (e.into_inner()).
dyn_lookup(S, name) == S.data[name]

\* What an operation on a variable reports: the handler it dispatched to,
\* how often and with which bytes, whether the handler panicked, the
\* pointer it gave to free (-1: free was not called), and its calls to
\* internal_error and error!.
DynDid(op, name, ret) ==
    [op |-> op, name |-> name, ret |-> ret, fault |-> FALSE, calls |-> 0,
     handler |-> <<>>, arg |-> <<>>, freed |-> -1, internal_errors |-> 0,
     errors |-> 0, reentered |-> "no"]

\* The host's thread is inside a trampoline that waits for the lock it
\* holds itself: nothing runs after that.
Blocked == dlast.ret = "blocked"

\* What the body of a handler (get or set) does: it returns, it panics, or
\* it uses the table again while read_var or assign_var holds its guard:
\* it calls variables::bind, or variables::find on a dynamic variable,
\* which makes the host call read_var.
HandlerActs == {"returns", "panics", "binds", "reads"}

\* Mutex::lock on the thread that holds the lock "might panic or
\* deadlock" (std::sync::Mutex): both are outcomes.
RelockOutcomes == {"panic", "deadlock"}

\* The run of a handler while the trampoline holds the guard of the
\* table: how it ends for the trampoline ("returns", "panics", or
\* "blocks" when the thread waits for its own lock), what it has done to
\* the host's variables by then, and the calls to internal_error made
\* inside it.  bind_dynvar hooks the variable `other` (bind_variable with
\* a null value keeps a variable that has an assign hook) before it asks
\* for the guard; a nested read_var catches the panic of its own lock,
\* reports it and returns, so the handler goes on.
handler_run(act, other, relock, sh, live) ==
    LET kept == sh[other].exists /\ sh[other].hooked
        bound_sh == IF kept THEN sh
                    ELSE [sh EXCEPT ![other] =
                             [exists |-> TRUE, hooked |-> TRUE,
                              ptr |-> 0, bytes |-> <<>>]]
        bound_heap == IF kept THEN live ELSE live - sh[other].ptr
    IN CASE act = "returns" ->
              [shell |-> sh, heap |-> live, end |-> "returns",
               internal_errors |-> 0]
         [] act = "panics" ->
              [shell |-> sh, heap |-> live, end |-> "panics",
               internal_errors |-> 0]
         [] act = "binds" ->
              [shell |-> bound_sh, heap |-> bound_heap,
               end |-> IF relock = "panic" THEN "panics" ELSE "blocks",
               internal_errors |-> 0]
         [] OTHER ->
              [shell |-> sh, heap |-> live,
               end |-> IF relock = "panic" THEN "returns" ELSE "blocks",
               internal_errors |-> IF relock = "panic" THEN 1 ELSE 0]

\* The handler's choices that make a difference: the variable it binds or
\* reads is another one than its own, it and the outcome of the lock
\* matter only when the handler uses the table, and variables::find
\* reaches read_var only for a hooked variable.
HandlerChoice(act, name, other, relock) ==
    /\ act \in {"returns", "panics"} => other = name /\ relock = "panic"
    /\ act \in {"binds", "reads"} => other # name
    /\ act = "reads" => shell[other].exists /\ shell[other].hooked

\* Counters are read while they are less than MaxCount above the value
\* they were bound or assigned with.
CounterCap(e) == e.kind = "Counter" => (e.n % 1000) < MaxCount

\* variables::bind -> bind_dynvar.  bind_variable(name, NULL, 0) of the
\* host returns null, or makes the variable when there is none, with or
\* without storage for its value; on a variable that has an assign hook it
\* calls the hook with a null value, which assign_var returns from at once.
bind_dynvar ==
    /\ ~Blocked
    /\ \E name \in NameInputs, dynvar \in DynVarInputs,
          host \in {"null", "stored", "bare"} :
         LET run == DynDid("bind", name, "Ok")
             failed == has_nul(name) \/ host = "null"
             v == shell[name]
             kept == v.exists /\ v.hooked
             p == IF host = "stored" THEN 1 ELSE 0
             g == dyn_global_state(STATE_INIT, dynvars, atexit)
         IN
         \* each way to fail is taken once, whatever the instance, and
         \* the instance whose get returns None is bound to X
         /\ failed => dynvar.kind = "Counter"
         /\ dynvar.kind = "Empty" => name = <<88>>
         /\ has_nul(name) => host = "null"
         /\ IF failed
            THEN /\ dlast' = [run EXCEPT !.ret = "InvalidName"]
                 /\ UNCHANGED <<shell, heap, STATE_INIT, dynvars, atexit>>
            ELSE /\ shell' = [shell EXCEPT ![name] =
                                 IF kept THEN v
                                 ELSE [exists |-> TRUE, hooked |-> TRUE,
                                       ptr |-> p, bytes |-> <<>>]]
                 /\ heap' = IF kept THEN heap ELSE (heap - v.ptr) + p
                 /\ STATE_INIT' = g.init
                 /\ atexit' = g.atexit
                 /\ dynvars' = [g.mutex EXCEPT !.data[name] = dynvar]
                 /\ dlast' = run
    /\ UNCHANGED notDyn

\* Mutant: the old storage of the variable is kept when a value is stored.
read_var_store_without_free(live, old, got) ==
    [heap |-> live + 1, ptr |-> 1, freed |-> -1]

\* The end of read_var: libc::free(value), which does nothing on null,
\* then the block of the CString that get returned, or that of
\* calloc(1, 1).  `freed` is the pointer free was called with.
read_var_store(live, old, got) ==
    [heap |-> (live - old) + 1, ptr |-> 1, freed |-> old]

\* Mutant: the storage of the variable is given to free before the
\* report is made.
read_var_unavailable_frees(v) ==
    [var |-> [v EXCEPT !.ptr = 0, !.bytes = <<>>], freed |-> v.ptr,
     internal_errors |-> 1]

\* The arm of read_var for a panic caught by catch_unwind and for a name
\* the table has no entry for: internal_error("dynamic variable
\* unavailable") and the variable is returned as it came.
read_var_unavailable(v) == [var |-> v, freed |-> -1, internal_errors |-> 1]

\* read_var, called by the host when it reads a variable whose
\* dynamic_value is read_var.
read_var ==
    /\ ~Blocked
    /\ \E name \in DynNames, act \in HandlerActs, other \in DynNames,
          relock \in RelockOutcomes :
      LET v == shell[name]
          e == dyn_lookup(dynvars, name)
          run == DynDid("read", name, "untouched")
          h == handler_run(act, other, relock, shell, heap)
          u == read_var_unavailable(v)
          called == [run EXCEPT !.calls = 1, !.handler = name,
                                !.reentered = IF act \in {"binds", "reads"}
                                              THEN act ELSE "no",
                                !.internal_errors = h.internal_errors]
      IN
      /\ v.exists /\ v.hooked
      /\ CounterCap(e)
      /\ HandlerChoice(act, name, other, relock)
      /\ UNCHANGED <<STATE_INIT, atexit>>
      /\ IF ~STATE_INIT
         THEN /\ act = "returns"
              /\ dlast' = run
              /\ UNCHANGED <<shell, heap, dynvars>>
         ELSE IF ~e.bound
         THEN /\ act = "returns"
              /\ shell' = [shell EXCEPT ![name] = u.var]
              /\ heap' = (heap - v.ptr) + u.var.ptr
              /\ dlast' = [run EXCEPT !.internal_errors = u.internal_errors,
                                      !.freed = u.freed]
              /\ UNCHANGED dynvars
         ELSE IF h.end = "blocks"
         THEN /\ shell' = h.shell
              /\ heap' = h.heap
              /\ dlast' = [called EXCEPT !.ret = "blocked"]
              /\ UNCHANGED dynvars
         ELSE IF h.end = "panics"
         THEN /\ dynvars' = [dynvars EXCEPT !.poisoned = TRUE]
              /\ shell' = [h.shell EXCEPT ![name] = u.var]
              /\ heap' = (h.heap - v.ptr) + u.var.ptr
              /\ dlast' = [called EXCEPT !.fault = TRUE,
                                         !.freed = u.freed,
                                         !.internal_errors =
                                             @ + u.internal_errors]
         ELSE LET got == dyn_get(e)
                  st == read_var_store(heap, v.ptr, got)
              IN /\ dynvars' = [dynvars EXCEPT !.data[name] = got.entry]
                 /\ heap' = st.heap
                 /\ shell' = [shell EXCEPT ![name] =
                                 [v EXCEPT !.ptr = st.ptr,
                                           !.bytes = got.bytes]]
                 /\ dlast' = [called EXCEPT !.ret = "replaced",
                                            !.freed = st.freed]
    /\ UNCHANGED notDyn

\* Mutant: the assigned value never reaches the handler.
assign_var_dispatch_dropped(e, bytes) == [entry |-> e, errors |-> 0]

\* The dispatch of assign_var: dynvar.set(CStr::from_ptr(value)).
assign_var_dispatch(e, bytes) == dyn_set(e, bytes)

\* assign_var, called by the host when it assigns to a variable whose
\* assign_func is assign_var.
assign_var ==
    /\ ~Blocked
    /\ \E name \in DynNames, value \in AssignInputs, act \in HandlerActs,
          other \in DynNames, relock \in RelockOutcomes :
      LET v == shell[name]
          g == dyn_global_state(STATE_INIT, dynvars, atexit)
          e == dyn_lookup(g.mutex, name)
          run == DynDid("assign", name, "returned")
          h == handler_run(act, other, relock, shell, heap)
          called == [run EXCEPT !.calls = 1, !.handler = name,
                                !.arg = value.bytes,
                                !.reentered = IF act \in {"binds", "reads"}
                                              THEN act ELSE "no",
                                !.internal_errors = h.internal_errors]
      IN
      /\ v.exists /\ v.hooked
      /\ HandlerChoice(act, name, other, relock)
      \* the handlers that do not simply return are given "abc", and
      \* "1000" is assigned to FOO
      /\ act # "returns" => value = SomeArg(<<97, 98, 99>>)
      /\ value = SomeArg(<<49, 48, 48, 48>>) => name = <<70, 79, 79>>
      /\ IF ~value.some
         THEN /\ dlast' = [run EXCEPT !.ret = "null"]
              /\ UNCHANGED <<shell, heap, STATE_INIT, dynvars, atexit>>
         ELSE
         /\ STATE_INIT' = g.init
         /\ atexit' = g.atexit
         /\ IF ~e.bound
            THEN /\ act = "returns"
                 /\ dynvars' = g.mutex
                 /\ dlast' = run
                 /\ UNCHANGED <<shell, heap>>
            ELSE IF h.end = "blocks"
            THEN /\ dynvars' = g.mutex
                 /\ shell' = h.shell
                 /\ heap' = h.heap
                 /\ dlast' = [called EXCEPT !.ret = "blocked"]
            ELSE IF h.end = "panics"
            THEN /\ dynvars' = [g.mutex EXCEPT !.poisoned = TRUE]
                 /\ shell' = h.shell
                 /\ heap' = h.heap
                 /\ dlast' = [called EXCEPT !.fault = TRUE,
                                            !.internal_errors = @ + 1]
            ELSE LET r == assign_var_dispatch(e, value.bytes)
                 IN /\ dynvars' = [g.mutex EXCEPT !.data[name] = r.entry]
                    /\ dlast' = [called EXCEPT !.errors = r.errors]
                    /\ UNCHANGED <<shell, heap>>
    /\ UNCHANGED notDyn

\* Mutant: unset also drops the instance bound to the name.
unset_table_forgets(S, name) == [S EXCEPT !.data[name] = NoDynVar]

\* What variables::unset does to the table of dynamic variables: nothing,
\* it only calls unbind_variable of the host.
unset_table(S, name) == S

\* variables::unset: false for a name CString::new refuses, else whether
\* unbind_variable of the host returned 0; the host frees the value of the
\* variable it removes.
unset ==
    /\ ~Blocked
    /\ \E name \in NameInputs :
      LET run == DynDid("unset", name, "false")
      IN
      IF has_nul(name) \/ ~shell[name].exists
      THEN /\ dlast' = run
           /\ UNCHANGED <<shell, heap, STATE_INIT, dynvars, atexit>>
      ELSE /\ shell' = [shell EXCEPT ![name] = NoVar]
           /\ heap' = heap - shell[name].ptr
           /\ dynvars' = unset_table(dynvars, name)
           /\ dlast' = [run EXCEPT !.ret = "true"]
           /\ UNCHANGED <<STATE_INIT, atexit>>
    /\ UNCHANGED notDyn

\* The host makes a plain variable of a name it does not have (the user
\* assigns to it): its dynamic_value is not read_var, its value is stored.
host_assign ==
    /\ ~Blocked
    /\ \E name \in DynNames :
         /\ ~shell[name].exists
         /\ shell' = [shell EXCEPT ![name] =
                         [exists |-> TRUE, hooked |-> FALSE, ptr |-> 1,
                          bytes |-> <<53>>]]
         /\ heap' = heap + 1
         /\ dlast' = DynDid("host_assign", name, "none")
    /\ UNCHANGED <<STATE_INIT, dynvars, atexit>>
    /\ UNCHANGED notDyn

\* Mutant: every tracked name the host has a variable for is unbound,
\* whatever its hook.
teardown_unbinds_whatever_hook(tracked, sh) ==
    {nm \in tracked : sh[nm].exists}

\* The loop of remove_all_dynvars: unbind_variable for the tracked names
\* that find_variable finds with dynamic_value == read_var.
teardown_unbinds(tracked, sh) ==
    {nm \in tracked : sh[nm].exists /\ sh[nm].hooked}

\* remove_all_dynvars, run by the host's atexit once for each time it was
\* registered: the table is taken, STATE_INIT cleared, and every tracked
\* name whose variable still has read_var as its hook is unbound; `calls`
\* counts the calls to unbind_variable.
remove_all_dynvars ==
    LET g == dyn_global_state(STATE_INIT, dynvars, atexit)
        tracked == {nm \in DynNames : g.mutex.data[nm].bound}
        gone == teardown_unbinds(tracked, shell)
    IN
    /\ ~Blocked
    /\ atexit.ran < atexit.registered
    /\ atexit.ran < MaxTeardowns
    /\ STATE_INIT' = FALSE
    /\ atexit' = [g.atexit EXCEPT !.ran = @ + 1]
    /\ dynvars' = [g.mutex EXCEPT !.data = [nm \in DynNames |-> NoDynVar]]
    /\ shell' = [nm \in DynNames |-> IF nm \in gone THEN NoVar ELSE shell[nm]]
    /\ heap' = heap - Cardinality({nm \in gone : shell[nm].ptr = 1})
    /\ dlast' = [DynDid("teardown", <<>>, "none") EXCEPT
                    !.calls = Cardinality(gone)]
    /\ UNCHANGED notDyn

\* No variable is bound and the table was never built.
DynInit ==
    /\ shell = [nm \in DynNames |-> NoVar]
    /\ heap = 0
    /\ STATE_INIT = FALSE
    /\ dynvars = [data |-> [nm \in DynNames |-> NoDynVar], poisoned |-> FALSE]
    /\ atexit = [registered |-> 0, ran |-> 0]
    /\ dlast = DynDid("none", <<>>, "none")

(***************************************************************************)
(* Plain, indexed and associative variables: variables/mod.rs, arrays.rs   *)
(* and assoc.rs, over the host's variable named A.                         *)
(***************************************************************************)
\* The names a caller passes: A, 1x (no identifier) and A\0B.
SetNames == {<<65>>, <<49, 120>>, <<65, 0, 66>>}

\* The values a caller passes: v, w and v\0w.
SetValues == {<<118>>, <<119>>, <<118, 0, 119>>}

\* The keys a caller passes: 0, 01 and 0\0.
AssocKeys == {<<48>>, <<48, 49>>, <<48, 0>>}

\* The keys a table can hold: those of AssocKeys that are C strings, and
\* the key "0" under which the host's bind_variable stores a plain value.
StoredKeys == {k \in AssocKeys : ~has_nul(k)} \cup {<<48>>}

\* ffi::legal_identifier, defined by the host: a letter or '_', then
\* letters, digits or '_'.  Returns 0 or 1.
legal_identifier(name) ==
    LET starter(c) == c \in (65..90) \cup (97..122) \cup {95}
        char(c) == starter(c) \/ c \in 48..57
    IN  IF /\ Len(name) > 0
           /\ starter(name[1])
           /\ \A i \in 2..Len(name) : char(name[i])
        THEN 1 ELSE 0

\* ffi::ShellVar as the model keeps it: attributes (kind) and the value
\* cell, which is a string, an Array (elements in index order) or a
\* HashTable (bucket_array: NBuckets chains of BucketContents).
ShellVar(kind, value, array, table) ==
    [kind |-> kind, value |-> value, array |-> array, table |-> table]

\* The host's array_insert: the element replaces one of the same index,
\* the list stays in index order.
array_insert(a, ind, value) ==
    SelectSeq(a, LAMBDA e : e.ind < ind)
        \o << [ind |-> ind, value |-> value] >>
        \o SelectSeq(a, LAMBDA e : e.ind > ind)

\* The host's assoc_insert: the entry of an equal key gets the new data in
\* place, a new entry goes to the head of the chain its key hashes to.
assoc_insert(table, key, value) ==
    LET b == hash[key]
        chain == table[b]
        item == [key |-> key, data |-> value]
    IN  IF \E i \in 1..Len(chain) : chain[i].key = key
        THEN [table EXCEPT ![b] =
                 [i \in 1..Len(chain) |->
                     IF chain[i].key = key THEN item ELSE chain[i]]]
        ELSE [table EXCEPT ![b] = <<item>> \o chain]

\* ffi::make_new_assoc_variable, defined by the host: an empty table.
make_new_assoc_variable ==
    ShellVar("assoc", <<>>, <<>>, [b \in 1..NBuckets |-> <<>>])

\* ffi::bind_variable, defined by the host.  It may refuse (null, nothing
\* changes); otherwise an array takes the value at index 0 and a table
\* under the key "0".
bind_variable(v, value) ==
    { [null |-> TRUE, var |-> v],
      [null |-> FALSE,
       var |-> CASE v.kind = "array" ->
                      [v EXCEPT !.array = array_insert(v.array, 0, value)]
                 [] v.kind = "assoc" ->
                      [v EXCEPT !.table = assoc_insert(v.table, <<48>>, value)]
                 [] OTHER -> ShellVar("scalar", value, <<>>, <<>>)] }

\* ffi::bind_array_variable, defined by the host.  It may refuse; a plain
\* variable is converted, its value becoming element 0; what it does to a
\* table is not defined by the host (the table is read as a string): the
\* variable ends as an array that holds the new element.
bind_array_variable(v, ind, value) ==
    { [null |-> TRUE, var |-> v],
      [null |-> FALSE,
       var |-> CASE v.kind = "array" ->
                      [v EXCEPT !.array = array_insert(v.array, ind, value)]
                 [] v.kind = "scalar" ->
                      ShellVar("array", <<>>,
                          array_insert(<< [ind |-> 0, value |-> v.value] >>,
                                       ind, value), <<>>)
                 [] OTHER ->
                      ShellVar("array", <<>>,
                          << [ind |-> ind, value |-> value] >>, <<>>)] }

\* ffi::bind_assoc_variable, defined by the host, on a variable that holds
\* a table.  It may refuse.
bind_assoc_variable(v, key, value) ==
    { [null |-> TRUE, var |-> v],
      [null |-> FALSE,
       var |-> [v EXCEPT !.table = assoc_insert(v.table, key, value)]] }

\* What a set or a get did: its inputs, what it returned ("Ok", a
\* VariableError, "Some" or "None"), the copy a get returned, and how
\* many times a bind primitive of the host was called.
VarDid(op, name, sub, value, ret, got, binds) ==
    [op |-> op, name |-> name, key |-> sub.key, index |-> sub.index,
     value |-> value, ret |-> ret, got |-> got, binds |-> binds]

NoSub == [key |-> <<>>, index |-> 0]

\* The checks in another order: the name is judged first, then the value.
set_precheck_name_first(name, value) ==
    IF has_nul(name) \/ legal_identifier(name) = 0 THEN "InvalidName"
    ELSE IF has_nul(value) THEN "InvalidValue"
    ELSE "Ok"

\* The checks of set and of array_set before the host binds anything:
\* CString::new(name), CString::new(value), then legal_identifier.
set_precheck(name, value) ==
    IF has_nul(name) THEN "InvalidName"
    ELSE IF has_nul(value) THEN "InvalidValue"
    ELSE IF legal_identifier(name) = 0 THEN "InvalidName"
    ELSE "Ok"

\* cstrdup: bytes with a nul are refused.
cstrdup(bytes) == IF has_nul(bytes) THEN "InvalidValue" ELSE "Ok"

\* The checks of assoc_set before it looks the variable up:
\* CString::new(name), cstrdup(key)?, cstrdup(value)?, legal_identifier.
assoc_set_precheck(name, key, value) ==
    IF has_nul(name) THEN "InvalidName"
    ELSE IF cstrdup(key) /= "Ok" THEN cstrdup(key)
    ELSE IF cstrdup(value) /= "Ok" THEN cstrdup(value)
    ELSE IF legal_identifier(name) = 0 THEN "InvalidName"
    ELSE "Ok"

\* variables::set.  A name that passes the checks is A, the one name of
\* SetNames that is an identifier.
set ==
    /\ \E name \in SetNames, value \in SetValues :
         LET pre == set_precheck(name, value)
         IN  IF pre /= "Ok"
             THEN /\ shell_var' = shell_var
                  /\ vlast' = VarDid("set", name, NoSub, value, pre, <<>>, 0)
             ELSE \E res \in bind_variable(shell_var, value) :
                  /\ shell_var' = res.var
                  /\ vlast' = VarDid("set", name, NoSub, value,
                                     IF res.null THEN "InvalidValue" ELSE "Ok",
                                     <<>>, 1)
    /\ hash' = hash
    /\ ~assoc_iter.active
    /\ UNCHANGED assoc_iter
    /\ UNCHANGED notVar

\* variables::array_set
array_set ==
    /\ \E name \in SetNames, index \in 0..MaxIndex, value \in SetValues :
         LET pre == set_precheck(name, value)
             sub == [key |-> <<>>, index |-> index]
         IN  IF pre /= "Ok"
             THEN /\ shell_var' = shell_var
                  /\ vlast' = VarDid("array_set", name, sub, value, pre,
                                     <<>>, 0)
             ELSE \E res \in bind_array_variable(shell_var, index, value) :
                  /\ shell_var' = res.var
                  /\ vlast' = VarDid("array_set", name, sub, value,
                                     IF res.null THEN "InvalidValue" ELSE "Ok",
                                     <<>>, 1)
    /\ hash' = hash
    /\ ~assoc_iter.active
    /\ UNCHANGED assoc_iter
    /\ UNCHANGED notVar

\* variables::assoc_set
assoc_set ==
    /\ \E name \in SetNames, key \in AssocKeys, value \in SetValues :
         LET pre == assoc_set_precheck(name, key, value)
             sub == [key |-> key, index |-> 0]
         IN  IF pre /= "Ok"
             THEN /\ shell_var' = shell_var
                  /\ vlast' = VarDid("assoc_set", name, sub, value, pre,
                                     <<>>, 0)
             ELSE IF shell_var.kind \notin {"unset", "assoc"}
             THEN /\ shell_var' = shell_var
                  /\ vlast' = VarDid("assoc_set", name, sub, value,
                                     "NotAssocArray", <<>>, 0)
             ELSE LET v == IF shell_var.kind = "unset"
                           THEN make_new_assoc_variable ELSE shell_var
                  IN  \E res \in bind_assoc_variable(v, key, value) :
                      /\ shell_var' = res.var
                      /\ vlast' = VarDid("assoc_set", name, sub, value,
                                         IF res.null THEN "InvalidValue"
                                         ELSE "Ok", <<>>, 1)
    /\ hash' = hash
    /\ ~assoc_iter.active
    /\ UNCHANGED assoc_iter
    /\ UNCHANGED notVar

\* libc::strncmp(s1, s2, n), from byte i on: s2 is a C string, s1 is read
\* for at most n bytes; the comparison stops at the first difference, at
\* a nul, or after n bytes.
RECURSIVE strncmp_from(_, _, _, _)
strncmp_from(s1, s2, n, i) ==
    IF i > n THEN 0
    ELSE LET c1 == IF i <= Len(s1) THEN s1[i] ELSE 0
             c2 == IF i <= Len(s2) THEN s2[i] ELSE 0
         IN  IF c1 /= c2 THEN c1 - c2
             ELSE IF c1 = 0 THEN 0
             ELSE strncmp_from(s1, s2, n, i + 1)

strncmp(s1, s2, n) == strncmp_from(s1, s2, n, 1)

\* RawVariable::assoc_items, all of AssocItemsIterator's items: bucket by
\* bucket, each chain from its head.
RECURSIVE assoc_items_from(_, _)
assoc_items_from(table, num_bucket) ==
    IF num_bucket > Len(table) THEN <<>>
    ELSE table[num_bucket] \o assoc_items_from(table, num_bucket + 1)

assoc_items(v) == assoc_items_from(v.table, 1)

\* find_raw: no variable for a name with a nul; otherwise the host's
\* find_variable, which knows the variable A once it is set.
find_raw(name) ==
    IF has_nul(name) \/ name /= <<65>> \/ shell_var.kind = "unset"
    THEN [some |-> FALSE, var |-> shell_var]
    ELSE [some |-> TRUE, var |-> shell_var]

\* The item assoc_get picks: the first one whose key strncmp finds equal
\* to the given key over key.len() bytes.
assoc_get_find(items, key) ==
    LET hits == {i \in 1..Len(items) :
                    strncmp(key, items[i].key, Len(key)) = 0}
    IN  IF hits = {} THEN [some |-> FALSE, data |-> <<>>]
        ELSE [some |-> TRUE,
              data |-> items[CHOOSE i \in hits : \A j \in hits : i <= j].data]

\* variables::assoc_get
assoc_get ==
    /\ \E name \in SetNames, key \in AssocKeys \cup {<<>>} :
         LET var == find_raw(name)
             sub == [key |-> key, index |-> 0]
             value == IF var.some /\ var.var.kind = "assoc"
                      THEN assoc_get_find(assoc_items(var.var), key)
                      ELSE [some |-> FALSE, data |-> <<>>]
         IN  vlast' = VarDid("assoc_get", name, sub, <<>>,
                             IF value.some THEN "Some" ELSE "None",
                             value.data, 0)
    /\ ~assoc_iter.active
    /\ UNCHANGED <<hash, shell_var, assoc_iter>>
    /\ UNCHANGED notVar

\* AssocItemsIterator: num_bucket counts buckets from 0;
\* current_bucket_item is 0 for None and k for Some(pointer to the k-th
\* item of the chain of bucket num_bucket), one past the chain's length
\* being the null pointer that ends it.  `yielded` lists what next has
\* returned, each item with the bucket and the place in the chain it was
\* read at, and `nones` counts the calls that returned None.
AssocItemsIterator_new ==
    [active |-> TRUE, num_bucket |-> 0, current_bucket_item |-> 0,
     yielded |-> <<>>, nones |-> 0]

NoIterator == [AssocItemsIterator_new EXCEPT !.active = FALSE]

\* Mutant: each bucket gives its first item only.
RECURSIVE AssocItemsIterator_next_heads(_, _)
AssocItemsIterator_next_heads(table, it) ==
    IF ~(it.num_bucket < Len(table)) THEN [some |-> FALSE, it |-> it]
    ELSE IF it.current_bucket_item = 0 /\ Len(table[it.num_bucket + 1]) >= 1
    THEN [some |-> TRUE, place |-> 1, item |-> table[it.num_bucket + 1][1],
          it |-> [it EXCEPT !.current_bucket_item = 2]]
    ELSE AssocItemsIterator_next_heads(table,
             [it EXCEPT !.num_bucket = @ + 1, !.current_bucket_item = 0])

\* AssocItemsIterator::next: while num_bucket < nbuckets, the item is
\* current_bucket_item.take(), or the head of the bucket when that was
\* None; a non-null item is returned and its next pointer kept, a null one
\* moves to the next bucket.  After the last bucket it returns None.
RECURSIVE AssocItemsIterator_next(_, _)
AssocItemsIterator_next(table, it) ==
    IF ~(it.num_bucket < Len(table)) THEN [some |-> FALSE, it |-> it]
    ELSE LET chain == table[it.num_bucket + 1]
             k == IF it.current_bucket_item = 0 THEN 1
                  ELSE it.current_bucket_item
         IN  IF k <= Len(chain)
             THEN [some |-> TRUE, place |-> k, item |-> chain[k],
                   it |-> [it EXCEPT !.current_bucket_item = k + 1]]
             ELSE AssocItemsIterator_next(table,
                      [it EXCEPT !.num_bucket = @ + 1,
                                 !.current_bucket_item = 0])

\* RawVariable::assoc_items: an iterator over the table of A, which it
\* borrows until it is dropped.
assoc_items_new ==
    /\ shell_var.kind = "assoc"
    /\ ~assoc_iter.active
    /\ assoc_iter' = AssocItemsIterator_new
    /\ UNCHANGED <<hash, shell_var, vlast>>
    /\ UNCHANGED notVar

\* One call of next on the iterator.
assoc_items_next ==
    /\ assoc_iter.active
    /\ assoc_iter.nones < MaxNones
    /\ LET r == AssocItemsIterator_next(shell_var.table, assoc_iter)
       IN  assoc_iter' =
             IF r.some
             THEN [r.it EXCEPT !.yielded =
                      Append(@, [bucket |-> r.it.num_bucket,
                                 place |-> r.place,
                                 key |-> r.item.key, data |-> r.item.data])]
             ELSE [r.it EXCEPT !.nones = @ + 1]
    /\ UNCHANGED <<hash, shell_var, vlast>>
    /\ UNCHANGED notVar

\* The iterator is dropped, at any point of the iteration.
assoc_items_drop ==
    /\ assoc_iter.active
    /\ assoc_iter' = NoIterator
    /\ UNCHANGED <<hash, shell_var, vlast>>
    /\ UNCHANGED notVar

NoShellVar == ShellVar("unset", <<>>, <<>>, <<>>)

\* No variable and nothing asked of the host.
VarIdle ==
    /\ hash = [k \in StoredKeys |-> 1]
    /\ shell_var = NoShellVar
    /\ vlast = VarDid("none", <<>>, NoSub, <<>>, "none", <<>>, 0)
    /\ assoc_iter = NoIterator

\* The host hashes keys as it likes, and A is unset or holds a string.
VarInit ==
    /\ hash \in [StoredKeys -> 1..NBuckets]
    /\ shell_var \in {NoShellVar, ShellVar("scalar", <<118>>, <<>>, <<>>)}
    /\ vlast = VarDid("none", <<>>, NoSub, <<>>, "none", <<>>, 0)
    /\ assoc_iter = NoIterator

(***************************************************************************)
(* Specification of the lifecycle.                                         *)
(***************************************************************************)
OptIdle ==
    /\ variants = <<>>
    /\ derived = "pending"
    /\ OPTIONS = <<>>
    /\ options_ret = <<>>
    /\ decoded = NoDecode

LifeInit ==
    /\ ctor_kind \in {"create", "try_create"}
    /\ state_init = FALSE
    /\ store = MutexNew(None)
    /\ inst = [i \in Ids |-> "unborn"]
    /\ drops = [i \in Ids |-> 0]
    /\ calls = [i \in Ids |-> 0]
    /\ last = NoRun
    /\ prev = <<>>

Init == LifeInit /\ OptIdle /\ ArgsIdle /\ DynInit /\ VarIdle

Next == Load \/ Call \/ Unload

Spec == Init /\ [][Next]_vars
(***************************************************************************)
(* Specification of the option schema: any enum within the bounds is       *)
(* derived, then options() is called.                                      *)
(***************************************************************************)
OptionsInit ==
    /\ LifeInit
    /\ ctor_kind = "create"
    /\ variants \in Enums
    /\ derived = "pending"
    /\ OPTIONS = <<>>
    /\ options_ret = <<>>
    /\ decoded = NoDecode
    /\ ArgsIdle
    /\ DynInit
    /\ VarIdle

OptionsNext == macro_impl \/ options \/ from_option

SpecOptions == OptionsInit /\ [][OptionsNext]_vars

(***************************************************************************)
(* Specification of the argument cursor: a builtin whose options are those *)
(* of TestEnum works through the word list of one call.                    *)
(***************************************************************************)
ArgsSpecInit ==
    /\ LifeInit
    /\ ctor_kind = "create"
    /\ variants = TestEnum
    /\ derived = "ok"
    /\ OPTIONS = options_string(parse_variants(TestEnum).variants)
    /\ options_ret = <<>>
    /\ decoded = NoDecode
    /\ ArgsInit
    /\ DynInit
    /\ VarIdle

ArgsNext ==
    \/ Args_options
    \/ OptionsIterator_next
    \/ raw_arguments
    \/ WordListIterator_next
    \/ drop_iterator
    \/ finished
    \/ is_empty
    \/ Args_no_options

SpecArgs == ArgsSpecInit /\ [][ArgsNext]_vars

(***************************************************************************)
(* Specification of the dynamic variables: a builtin binds them, the host  *)
(* reads, assigns and unsets them, and runs the teardown hook.             *)
(***************************************************************************)
DynSpecInit ==
    /\ LifeInit
    /\ ctor_kind = "create"
    /\ OptIdle
    /\ ArgsIdle
    /\ DynInit
    /\ VarIdle

DynNext ==
    \/ bind_dynvar
    \/ read_var
    \/ assign_var
    \/ unset
    \/ host_assign
    \/ remove_all_dynvars

SpecDyn == DynSpecInit /\ [][DynNext]_vars

(***************************************************************************)
(* Specification of the variables: a builtin sets the variable A as a      *)
(* string, an array element or a table entry, and reads table entries.     *)
(***************************************************************************)
VarSpecInit ==
    /\ LifeInit
    /\ ctor_kind = "create"
    /\ OptIdle
    /\ ArgsIdle
    /\ DynInit
    /\ VarInit

VarNext ==
    \/ set
    \/ array_set
    \/ assoc_set
    \/ assoc_get
    \/ assoc_items_new
    \/ assoc_items_next
    \/ assoc_items_drop

SpecVars == VarSpecInit /\ [][VarNext]_vars

(***************************************************************************)
(* Claims about the lifecycle, checked under Spec.                         *)
(***************************************************************************)
\* The entry point that ran last, and whether it entered Builtin::call.
Called == last.op = "call"
Invoked == Called /\ last.invoked # None
Faulted == Invoked /\ last.outcome.kind = "Panic"
ReturnedNormally == Invoked /\ last.outcome.kind # "Panic"

\* C1: when the instance's call panics inside the call entry point, the
\* entry point still returns to the host, with exit code 101, and the store
\* is poisoned afterwards.
C1_PanicContained ==
    Faulted => /\ last.ret = 101
               /\ store.poisoned
               /\ store.data = last.invoked

C1_Witness ==
    /\ Faulted
    /\ ~last.pre.poisoned
    /\ last.ret = 101
    /\ store.poisoned

\* C2: while the store is poisoned, every step that is not an unload leaves
\* it poisoned, and every call reports "invalid internal state", returns
\* the failure code 1 and does not enter the instance's call, whatever the
\* word list and however many calls came before.
C2_PoisonedCallsRefused ==
    [][store.poisoned =>
         /\ last'.op # "unload" => store'.poisoned /\ store'.data = store.data
         /\ last'.op = "call" =>
              /\ last'.ret = 1
              /\ last'.diag = <<"invalid internal state">>
              /\ last'.invoked = None
              /\ calls' = calls]_vars

\* Two refused calls in a row, the second one with a word list.
C2_Witness ==
    /\ Called
    /\ last.pre.poisoned
    /\ last.words # <<>>
    /\ last.diag = <<"invalid internal state">>
    /\ Len(prev) = 2
    /\ prev[2] = "call_refused"
    /\ prev[1] = "call"

\* C3: unload on a store that is loaded and not poisoned runs the stored
\* instance's Drop exactly once before it returns.
C3_UnloadReleasesOnce ==
    (last.op = "unload" /\ last.pre.data # None /\ ~last.pre.poisoned) =>
        /\ last.dropped = last.pre.data
        /\ drops[last.pre.data] = 1
        /\ inst[last.pre.data] = "dropped"

\* C4: unload on a poisoned store runs no Drop: the instance it held is
\* leaked, and its destructor has never run.
C4_PoisonedUnloadLeaks ==
    (last.op = "unload" /\ last.pre.poisoned) =>
        /\ last.dropped = None
        /\ last.pre.data # None =>
             /\ inst[last.pre.data] = "leaked"
             /\ drops[last.pre.data] = 0

C4_Witness ==
    /\ last.op = "unload"
    /\ last.pre.poisoned
    /\ last.pre.data # None
    /\ inst[last.pre.data] = "leaked"

\* C5: unload leaves the store empty and unpoisoned, whether it was loaded
\* or poisoned; so a call that follows an unload and a successful load
\* enters the call of the instance that load built and does not report
\* "invalid internal state".
C5_UnloadResets ==
    /\ last.op = "unload" => store.data = None /\ ~store.poisoned
    /\ ( /\ Called
         /\ Len(prev) = 2
         /\ prev[1] \in {"unload", "unload_poisoned"}
         /\ prev[2] = "load_ok" ) =>
           /\ last.invoked # None
           /\ last.invoked = last.pre.data
           /\ last.invoked = NextId - 1
           /\ last.diag # <<"invalid internal state">>

C5_Witness ==
    /\ Called
    /\ prev = <<"unload_poisoned", "load_ok">>
    /\ last.invoked = 2
    /\ inst[1] = "leaked"
    /\ last.outcome.kind = "Ok"
    /\ last.ret = 0

\* C6: a load whose fallible constructor returns Err prints a diagnostic,
\* returns 0 and leaves the store as it was (empty when it was empty), and
\* a call on the empty store finds no instance; a load whose constructor
\* succeeds stores the new instance and returns 1.
C6_LoadResult ==
    /\ (last.op = "load" /\ last.ctor = "Err") =>
          /\ last.ret = 0
          /\ Len(last.diag) = 1
          /\ store = last.pre
          /\ last.stored = None
    /\ (last.op = "load" /\ last.ctor = "Ok") =>
          /\ last.ret = 1
          /\ last.stored # None
          /\ store.data = last.stored
          /\ ~store.poisoned
          /\ inst[last.stored] = "boxed"
    /\ (Called /\ last.pre.data = None /\ ~last.pre.poisoned) =>
          /\ last.invoked = None
          /\ store.data = None

\* A call right after a failed try_create on an empty store.
C6_Witness ==
    /\ ctor_kind = "try_create"
    /\ Called
    /\ Len(prev) >= 1
    /\ prev[Len(prev)] = "load_err"
    /\ last.pre.data = None
    /\ last.invoked = None
    /\ last.diag = <<"builtin not initialized">>

\* C7: for a call that returns normally the exit code and the printing
\* follow from the result alone: Ok gives 0 and prints nothing, Usage gives
\* 258 and prints nothing, ExitCode(n) gives n and prints nothing, a
\* GenericError gives 1 and prints its message once.
C7_ExitCodeOfResult ==
    ReturnedNormally =>
        LET k == last.outcome.kind IN
        /\ k = "Ok" => last.ret = 0 /\ last.diag = <<>>
        /\ k = "Usage" => last.ret = 258 /\ last.diag = <<>>
        /\ k = "ExitCode" => last.ret = last.outcome.code /\ last.diag = <<>>
        /\ k = "GenericError" =>
              last.ret = 1 /\ last.diag = <<"generic error message">>
        /\ ~store.poisoned

C7_Witness ==
    /\ ReturnedNormally
    /\ last.outcome.kind = "GenericError"
    /\ last.ret = 1
    /\ Len(last.diag) = 1

\* C8 as stated: the call entry point returns 101 only when it intercepted
\* a panic (and the store is then poisoned), never for a call that returned
\* normally.
C8_Original_101OnlyOnPanic ==
    (Called /\ last.ret = 101) => Faulted /\ store.poisoned

\* C8 as amended: the call entry point returns 101 when it intercepted a
\* panic (and the store is then poisoned); a call that returned normally
\* returns 101 only when the instance itself returned Error::ExitCode(101).
C8_101OnPanicOrExitCode101 ==
    /\ Faulted => last.ret = 101 /\ store.poisoned
    /\ (Called /\ last.ret = 101 /\ ~Faulted) =>
          /\ ReturnedNormally
          /\ last.outcome = ExitCode(101)
          /\ ~store.poisoned

C8_Witness ==
    /\ ReturnedNormally
    /\ last.outcome = ExitCode(101)
    /\ last.ret = 101
    /\ ~store.poisoned
(***************************************************************************)
(* Claims about the option schema, checked under SpecOptions.              *)
(***************************************************************************)
\* What the schema says of a descriptor, read from the enum as declared.
HasPayload(v) == v.shape = "Unnamed"
PayloadIsOptional(v) == HasPayload(v) /\ v.types[1].option

\* Bytes contributed by the descriptors before the i-th.
RECURSIVE BytesBefore(_)
BytesBefore(i) ==
    IF i <= 1 THEN 0
    ELSE BytesBefore(i - 1) + 1 + (IF HasPayload(variants[i - 1]) THEN 1 ELSE 0)

OptionsReturned == derived = "ok" /\ options_ret # <<>>

\* C9: the parser string lists the descriptors in declaration order, each
\* giving its flag character, then ':' (58) when its payload is required,
\* ';' (59) when its payload type is Option<T>, and nothing when it has no
\* payload; the string ends with a NUL byte.  The enum a..g of the test
\* gives "ab:c:d:e:f;g:\0".
C9_ParserString ==
    OptionsReturned =>
        /\ \A i \in 1..Len(variants) :
             LET v == variants[i]
                 at == BytesBefore(i)
             IN /\ options_ret[at + 1] = v.option
                /\ (HasPayload(v) /\ ~PayloadIsOptional(v)) =>
                       options_ret[at + 2] = 58
                /\ PayloadIsOptional(v) => options_ret[at + 2] = 59
        /\ Len(options_ret) = BytesBefore(Len(variants) + 1) + 1
        /\ options_ret[Len(options_ret)] = 0
        /\ variants = TestEnum =>
             options_ret = <<97, 98, 58, 99, 58, 100, 58, 101, 58,
                             102, 59, 103, 58, 0>>

C9_Witness ==
    /\ OptionsReturned
    /\ variants = TestEnum
    /\ Len(options_ret) = 14

\* C10 as stated: the length of the string options() returns is the sum
\* over the descriptors of 1, plus 1 for each descriptor with a payload.
C10_Original_LengthIsSum ==
    OptionsReturned =>
        Len(options_ret) = BytesBefore(Len(variants) + 1)

\* C10 as amended: the length of the string options() returns is that sum
\* plus 1, for the terminating NUL byte.
C10_LengthIsSumPlusNul ==
    OptionsReturned =>
        Len(options_ret) = BytesBefore(Len(variants) + 1) + 1

\* Two descriptors, one with an optional payload and one with none: 3 + 1.
C10_Witness ==
    /\ OptionsReturned
    /\ variants = <<Unnamed(97, <<OptionOf(Ty("str"))>>), Unit(55)>>
    /\ options_ret = <<97, 59, 55, 0>>

(***************************************************************************)
(* Claims about decoding an option, checked under SpecOptions.             *)
(***************************************************************************)
\* from_option has been called on the derived enum, and the descriptor of
\* the enum, as declared, that its option code matches (if any).
Decoded == derived = "ok" /\ decoded.called
Matches(opt) == \E i \in 1..Len(variants) : variants[i].option = opt
DescriptorOf(opt) ==
    variants[CHOOSE i \in 1..Len(variants) : variants[i].option = opt]
Silent(out) ==
    out.needarg_calls = 0 /\ out.usage_calls = 0 /\ out.error_calls = 0

\* C11: decoding a matched flag whose payload is required, when no payload
\* was supplied, yields Usage, notifies the missing argument exactly once
\* and does not display the usage.
C11_RequiredPayloadAbsent ==
    (/\ Decoded
     /\ Matches(decoded.opt)
     /\ HasPayload(DescriptorOf(decoded.opt))
     /\ ~PayloadIsOptional(DescriptorOf(decoded.opt))
     /\ ~decoded.arg.some)
    => /\ decoded.out.result = ResUsage
       /\ decoded.out.needarg_calls = 1
       /\ decoded.out.usage_calls = 0

\* Flag `e` of the test's enum (a String), without a payload.
C11_Witness ==
    /\ Decoded
    /\ variants = TestEnum
    /\ decoded.opt = 101
    /\ ~decoded.arg.some
    /\ decoded.out.result = ResUsage
    /\ decoded.out.needarg_calls = 1

\* C12: decoding a matched flag whose payload is optional yields the absent
\* value without any diagnostic when no payload was supplied; when one was
\* supplied it yields what the inner type decodes from it, wrapped as
\* present (flag `f` with "abc" gives Some("abc")), and fails as the inner
\* type fails when the inner type cannot decode it.
C12_OptionalPayload ==
    (/\ Decoded
     /\ Matches(decoded.opt)
     /\ PayloadIsOptional(DescriptorOf(decoded.opt)))
    => LET base == DescriptorOf(decoded.opt).types[1].base
           inner == extract_value_default(base, decoded.arg)
       IN /\ ~decoded.arg.some =>
                /\ decoded.out.result = ResOk(NoneValue)
                /\ Silent(decoded.out)
          /\ (decoded.arg.some /\ inner.result.kind = "Ok") =>
                /\ decoded.out.result = ResOk(SomeValue(inner.result.value))
                /\ Silent(decoded.out)
          /\ (decoded.arg.some /\ inner.result.kind # "Ok") =>
                decoded.out = inner
          /\ (variants = TestEnum /\ decoded.arg = SomeArg(<<97, 98, 99>>)) =>
                decoded.out.result =
                    ResOk(SomeValue(Value("text", <<97, 98, 99>>, 0)))

\* Flag `f` of the test's enum (an Option<&str>), without a payload.
C12_Witness ==
    /\ Decoded
    /\ variants = TestEnum
    /\ decoded.opt = 102
    /\ ~decoded.arg.some
    /\ decoded.out.result = ResOk(NoneValue)
    /\ Silent(decoded.out)

\* C13: decoding a flag code that matches no descriptor yields Usage,
\* displays the usage exactly once and notifies no missing argument,
\* whatever payload comes with it.
C13_UnknownFlag ==
    (Decoded /\ ~Matches(decoded.opt))
    => /\ decoded.out.result = ResUsage
       /\ decoded.out.usage_calls = 1
       /\ decoded.out.needarg_calls = 0

\* Code 'z' with the payload "abc" on the test's enum.
C13_Witness ==
    /\ Decoded
    /\ variants = TestEnum
    /\ decoded.opt = 122
    /\ decoded.arg = SomeArg(<<97, 98, 99>>)
    /\ decoded.out.usage_calls = 1
    /\ decoded.out.needarg_calls = 0

(***************************************************************************)
(* Claims about the argument cursor, checked under SpecArgs.               *)
(***************************************************************************)
\* A word the scanner reads as options or as the end-of-options mark, and
\* a word whose last option takes a payload from the word after it.
IsOptionWord(w) == Len(w) >= 2 /\ w[1] = 45
TakesPayload(w) ==
    /\ IsOptionWord(w)
    /\ \E i \in 1..Len(variants) :
         variants[i].option = w[Len(w)] /\ HasPayload(variants[i])
Cursor == args.word_list
Remaining == SubSeq(word_list, Cursor, Len(word_list))

\* C14: when the scanner has reported the end of the options, the option
\* iteration has yielded None and the cursor stands on the first free
\* argument after the last parsed option: every word it passed is an
\* option word or the payload of the one before, and the word it stands on
\* is not an option word unless "--" came just before; the raw iteration
\* that follows yields the words from that one on, in list order, and all
\* of them by the time it ends.
C14_EndOfOptions ==
    /\ (alast.op = "options_next" /\ alast.ret = "None") =>
          /\ Cursor = getopt.loptend
          /\ alast.pre <= Cursor
          /\ \A i \in alast.pre..(Cursor - 1) :
                \/ IsOptionWord(word_list[i])
                \/ i > alast.pre /\ TakesPayload(word_list[i - 1])
          /\ Cursor <= Len(word_list) =>
                \/ ~IsOptionWord(word_list[Cursor])
                \/ Cursor > alast.pre /\ word_list[Cursor - 1] = <<45, 45>>
    /\ trail.eof =>
          /\ trail.seen = SubSeq(word_list, trail.from, Cursor - 1)
          /\ (alast.op = "raw_next" /\ alast.ret = "None") =>
                trail.seen = SubSeq(word_list, trail.from, Len(word_list))

\* -b 7 7: -b is decoded with its payload 7, the options end at the third
\* word, and the raw iteration that follows has yielded it and ended.
C14_Witness ==
    /\ word_list = << <<45, 98>>, <<55>>, <<55>> >>
    /\ decoded.opt = 98
    /\ decoded.out.result = ResOk(Value("int", <<>>, 7))
    /\ trail.eof
    /\ trail.from = 3
    /\ alast.op = "raw_next"
    /\ alast.ret = "None"
    /\ trail.seen = << <<55>> >>

\* C15: finished returns Ok exactly when the cursor is exhausted, which is
\* the case after an argument iteration has yielded every word of the list
\* in order; when a word remains it reports one error and yields Usage.  In
\* both cases the cursor stays where it was.
C15_Finished ==
    alast.op = "finished" =>
        /\ alast.ret = "Ok" <=> alast.pre = Null(word_list)
        /\ alast.pre # Null(word_list) =>
              /\ alast.ret = "Usage"
              /\ alast.errors = 1
        /\ alast.ret = "Ok" => alast.errors = 0
        /\ Cursor = alast.pre
        /\ (~trail.eof /\ trail.seen = word_list) => alast.ret = "Ok"

\* "abc" "def": both words yielded by the argument iteration, then finished.
C15_Witness ==
    /\ word_list = TestWords
    /\ ~trail.eof
    /\ trail.seen = TestWords
    /\ alast = Did("finished", "Ok", 3, 0, 0)

(***************************************************************************)
(* Claims about the dynamic variables, checked under SpecDyn.              *)
(***************************************************************************)
\* The step is a run of the trampoline `op` for a variable whose name the
\* table holds a handler pair for.
Trampoline(op) ==
    /\ dlast'.op = op
    /\ STATE_INIT
    /\ dynvars.data[dlast'.name].bound
\* The handler the trampoline called came back without a panic.
HandlerReturned == ~dlast'.fault /\ dlast'.ret # "blocked"
OthersUntouched(nm) ==
    \A o \in DynNames \ {nm} :
        shell'[o] = shell[o] /\ dynvars'.data[o] = dynvars.data[o]

\* C16: a host read of a bound dynamic variable whose get handler returns
\* invokes the handler registered under that name once, gives the prior
\* storage of the variable to free, and leaves in a fresh block the bytes
\* the handler returned, or the empty string when it returned none; a
\* counter is left one higher, so that a counter bound from 0 reads "0",
\* then "1".
C16_ReadDispatch ==
    [][(Trampoline("read") /\ HandlerReturned) =>
         LET nm == dlast'.name
             e == dynvars.data[nm]
             v == shell[nm]
             w == shell'[nm]
         IN /\ dlast'.calls = 1
            /\ dlast'.handler = nm
            /\ dlast'.freed = v.ptr
            /\ w.ptr = 1
            /\ heap' = (heap - v.ptr) + 1
            /\ w.bytes = (IF e.kind = "Counter" THEN format_isize(e.n) ELSE <<>>)
            /\ e.kind = "Counter" =>
                  /\ digits_value(w.bytes, 0) = e.n
                  /\ dynvars'.data[nm].n = e.n + 1
                  /\ e.n = 0 => w.bytes = <<48>>
                  /\ e.n = 1 => w.bytes = <<49>>
            /\ OthersUntouched(nm)
      ]_vars

\* X was bound to a counter and read twice: it holds "1", the block that
\* held "0" is freed, and the counter stands at 2.
C16_Witness ==
    /\ dlast.op = "read"
    /\ dlast.name = <<88>>
    /\ dlast.calls = 1
    /\ dlast.freed = 1
    /\ shell[<<88>>].bytes = <<49>>
    /\ dynvars.data[<<88>>] = [bound |-> TRUE, kind |-> "Counter", n |-> 2]

\* C17: an assignment to a bound dynamic variable dispatches once to the
\* set handler registered under that name, with the assigned bytes; a
\* panic of the handler is caught and reported through internal_error, and
\* the trampoline returns to the host all the same.  A counter takes the
\* number assigned, so that after FOO=1000 the reads give 1000, then 1001.
C17_AssignDispatch ==
    [][/\ (Trampoline("assign") /\ dlast'.ret # "null") =>
            LET nm == dlast'.name
                e == dynvars.data[nm]
            IN /\ dlast'.calls = 1
               /\ dlast'.handler = nm
               /\ dlast'.fault =>
                     /\ dlast'.ret = "returned"
                     /\ dlast'.internal_errors = 1
               /\ (HandlerReturned /\ dlast'.reentered = "no") =>
                     dlast'.internal_errors = 0
               /\ (HandlerReturned /\ e.kind = "Counter"
                     /\ dlast'.arg = <<49, 48, 48, 48>>) =>
                        dynvars'.data[nm].n = 1000
               /\ dlast'.reentered # "binds" =>
                     /\ shell' = shell
                     /\ OthersUntouched(nm)
       /\ (Trampoline("read") /\ HandlerReturned
             /\ dynvars.data[dlast'.name].kind = "Counter") =>
            LET n == dynvars.data[dlast'.name].n
            IN /\ n = 1000 => shell'[dlast'.name].bytes = <<49, 48, 48, 48>>
               /\ n = 1001 => shell'[dlast'.name].bytes = <<49, 48, 48, 49>>
      ]_vars

\* FOO=1000 and two reads: FOO holds "1001" and the counter stands at 1002.
C17_Witness ==
    /\ dlast.op = "read"
    /\ dlast.name = <<70, 79, 79>>
    /\ shell[<<70, 79, 79>>].bytes = <<49, 48, 48, 49>>
    /\ dynvars.data[<<70, 79, 79>>] =
           [bound |-> TRUE, kind |-> "Counter", n |-> 1002]

\* C18 as stated: once a bound variable has been unset, the table holds no
\* handler pair for its name.
C18_Original_UnsetForgets ==
    (dlast.op = "unset" /\ dlast.ret = "true") =>
        ~dynvars.data[dlast.name].bound

\* C18 as amended: unset removes the variable from the host and leaves the
\* table as it was, handler pair included; a handler pair leaves the table
\* only when the teardown hook runs, and changes only when the name is
\* bound again or its handler runs.
C18_UnsetKeepsBinding ==
    [][/\ dlast'.op = "unset" =>
            /\ dynvars' = dynvars
            /\ STATE_INIT' = STATE_INIT
            /\ dlast'.ret = "true" => ~shell'[dlast'.name].exists
       /\ \A nm \in DynNames :
            (dynvars.data[nm].bound /\ ~dynvars'.data[nm].bound) =>
                dlast'.op = "teardown"
      ]_vars

\* X bound, then unset: the variable is gone and the table still holds the
\* counter bound to it.
C18_Witness ==
    /\ dlast.op = "unset"
    /\ dlast.name = <<88>>
    /\ dlast.ret = "true"
    /\ ~shell[<<88>>].exists
    /\ dynvars.data[<<88>>].bound

\* The step is a read of a variable whose handler panicked, or whose name
\* the table has no entry for (the table that teardown has emptied and
\* closed included).
ReadUnavailable ==
    /\ dlast'.op = "read"
    /\ dlast'.ret # "blocked"
    /\ \/ dlast'.fault
       \/ ~STATE_INIT
       \/ ~dynvars.data[dlast'.name].bound

\* C24, as stated: a read whose get handler panics, or whose name has no
\* binding in the table, frees nothing, leaves the variable's storage as
\* it was, and calls internal_error.
C24_Original_AlwaysReported ==
    [][ReadUnavailable =>
          /\ dlast'.freed = -1
          /\ shell'[dlast'.name] = shell[dlast'.name]
          /\ dlast'.internal_errors >= 1
      ]_vars

\* C24, as amended: such a read frees nothing and leaves the variable's
\* storage as it was; it calls internal_error once when the table is
\* initialized, and returns without any report when teardown has cleared
\* STATE_INIT.
C24_UnavailableLeavesStorage ==
    [][ReadUnavailable =>
          /\ dlast'.freed = -1
          /\ shell'[dlast'.name] = shell[dlast'.name]
          /\ dlast'.ret = "untouched"
          /\ dlast'.internal_errors = (IF STATE_INIT THEN 1 ELSE 0)
          /\ (~dlast'.fault) => (shell' = shell /\ heap' = heap
                                   /\ dynvars' = dynvars)
      ]_vars

\* X was read once and holds "0"; the next read's handler panicked: the
\* block that holds "0" is still the variable's value, nothing was freed
\* and internal_error was called once.
C24_Witness ==
    /\ dlast.op = "read"
    /\ dlast.name = <<88>>
    /\ dlast.fault
    /\ dlast.reentered = "no"
    /\ dlast.freed = -1
    /\ dlast.internal_errors = 1
    /\ shell[<<88>>] = [exists |-> TRUE, hooked |-> TRUE, ptr |-> 1,
                        bytes |-> <<48>>]
    /\ heap = 1


\* The names the table holds a handler pair for.
Tracked == {nm \in DynNames : STATE_INIT /\ dynvars.data[nm].bound}

\* C25: when the teardown hook runs, every tracked name whose host
\* variable still has read_var as its read hook is removed from the host;
\* a tracked name whose variable is gone or has another hook, and every
\* untracked variable, is left as it was; the table is empty afterwards.
C25_TeardownUnbindsHooked ==
    [][dlast'.op = "teardown" =>
          /\ \A nm \in DynNames :
                IF nm \in Tracked /\ shell[nm].exists /\ shell[nm].hooked
                THEN shell'[nm] = NoVar
                ELSE shell'[nm] = shell[nm]
          /\ dlast'.calls =
                Cardinality({nm \in Tracked :
                                shell[nm].exists /\ shell[nm].hooked})
          /\ \A nm \in DynNames : dynvars'.data[nm] = NoDynVar
          /\ ~STATE_INIT'
      ]_vars

\* X and FOO were bound, FOO was unset and then assigned by the user;
\* teardown has unbound X alone: FOO is still the user's variable and the
\* table is empty.
C25_Witness ==
    /\ dlast.op = "teardown"
    /\ dlast.calls = 1
    /\ ~shell[<<88>>].exists
    /\ shell[<<70, 79, 79>>] = [exists |-> TRUE, hooked |-> FALSE, ptr |-> 1,
                                bytes |-> <<53>>]
    /\ \A nm \in DynNames : ~dynvars.data[nm].bound
    /\ ~STATE_INIT


\* C26, as stated: over any sequence of bind, read, write and teardown
\* operations the table is initialized once and its teardown hook is
\* registered once.
C26_Original_RegisteredOnce == atexit.registered <= 1

\* C26, as amended: the table is built, and the hook registered, by the
\* first use of the table and by the first use after each run of the
\* teardown hook, and by no other step: the hook is registered once more
\* than it has run while the table is initialized, and as often as it has
\* run while it is not; while the table is not initialized it tracks no
\* name, and before the first teardown the hook is registered at most once.
C26_InitOncePerTeardown ==
    /\ atexit.registered = atexit.ran + (IF STATE_INIT THEN 1 ELSE 0)
    /\ (~STATE_INIT) => \A nm \in DynNames : ~dynvars.data[nm].bound
    /\ atexit.ran = 0 => atexit.registered <= 1

\* X was bound, the teardown hook ran, and X was bound again: the table
\* was built a second time and the hook registered a second time.
C26_Witness ==
    /\ dlast.op = "bind"
    /\ dlast.ret = "Ok"
    /\ STATE_INIT
    /\ atexit = [registered |-> 2, ran |-> 1]
    /\ dynvars.data[<<88>>].bound


\* C29: a panic of a get or set handler leaves every handler pair of the
\* table registered as it was, and the table in use; on a table that a
\* panic has poisoned, a read or an assignment of a bound variable still
\* dispatches once to the handler registered under its name, and a read
\* whose handler returns replaces the value as on a table never poisoned.
C29_FaultKeepsTable ==
    [][/\ dlast'.fault =>
            /\ dlast'.op \in {"read", "assign"}
            /\ dynvars'.poisoned
            /\ STATE_INIT /\ STATE_INIT'
            /\ \A nm \in DynNames : dynvars'.data[nm] = dynvars.data[nm]
       /\ (dynvars.poisoned /\ dlast'.ret # "null"
             /\ (Trampoline("read") \/ Trampoline("assign"))) =>
            /\ dlast'.calls = 1
            /\ dlast'.handler = dlast'.name
            /\ (HandlerReturned /\ dlast'.op = "read") =>
                  /\ dlast'.ret = "replaced"
                  /\ shell'[dlast'.name].bytes =
                        dyn_get(dynvars.data[dlast'.name]).bytes
            /\ (HandlerReturned /\ dlast'.op = "assign") =>
                  dynvars'.data[dlast'.name] =
                      dyn_set(dynvars.data[dlast'.name], dlast'.arg).entry
      ]_vars

\* A handler panicked and poisoned the lock, and afterwards FOO, bound to a counter,
\* was assigned 1000 and read: the read gave "1000" and X is still bound.
C29_Witness ==
    /\ dynvars.poisoned
    /\ dlast.op = "read"
    /\ dlast.name = <<70, 79, 79>>
    /\ dlast.ret = "replaced"
    /\ dlast.calls = 1
    /\ shell[<<70, 79, 79>>].bytes = <<49, 48, 48, 48>>
    /\ dynvars.data[<<88>>].bound
    /\ dynvars.data[<<70, 79, 79>>] =
           [bound |-> TRUE, kind |-> "Counter", n |-> 1001]

\* C30: every run of read_var and of assign_var returns to the host, also
\* when the handler it runs binds a dynamic variable or reads another one:
\* the thread never waits for the lock of the table while it holds it.
C30_TrampolineReturns ==
    dlast.op \in {"read", "assign"} => dlast.ret # "blocked"

(***************************************************************************)
(* Claims on set, array_set, assoc_set and assoc_get.                      *)
(***************************************************************************)
SetOps == {"set", "array_set", "assoc_set"}

\* The entries of the variable A whose key is exactly the key of the
\* latest operation.
EntriesOfKey ==
    IF shell_var.kind = "assoc"
    THEN {e \in {assoc_items(shell_var)[i] :
                    i \in 1..Len(assoc_items(shell_var))} : e.key = vlast.key}
    ELSE {}

\* C19, as stated: after set, array_set or assoc_set, a name that fails
\* the host's identifier-legality check gave InvalidName whatever the
\* value, a value or key with an embedded nul gave InvalidValue, and in
\* both cases no bind primitive of the host was called.
C19_Original_NameWhateverValue ==
    vlast.op \in SetOps =>
        /\ legal_identifier(vlast.name) = 0 =>
               vlast.ret = "InvalidName" /\ vlast.binds = 0
        /\ has_nul(vlast.value) \/ has_nul(vlast.key) =>
               vlast.ret = "InvalidValue" /\ vlast.binds = 0

\* C19, amended: for set, array_set and assoc_set, a name with an
\* embedded nul gives InvalidName whatever the value; otherwise a value or
\* key with an embedded nul gives InvalidValue whatever the name;
\* otherwise a name that fails the host's identifier-legality check gives
\* InvalidName; in the three cases no bind primitive of the host is called
\* and the variable does not change.
C19_ChecksBeforeBind ==
    [][vlast'.op \in SetOps =>
         LET d == vlast'
             refused ==
                 IF has_nul(d.name) THEN "InvalidName"
                 ELSE IF has_nul(d.value) \/ has_nul(d.key) THEN "InvalidValue"
                 ELSE IF legal_identifier(d.name) = 0 THEN "InvalidName"
                 ELSE "no"
         IN  refused /= "no" =>
                 /\ d.ret = refused
                 /\ d.binds = 0
                 /\ shell_var' = shell_var]_vars

\* The variable A holds a table with an entry, and assoc_set with the
\* name 1x and the value v\0w was refused with InvalidValue without a
\* call to the host's bind primitive.
C19_Witness ==
    /\ vlast.op = "assoc_set"
    /\ vlast.name = <<49, 120>>
    /\ vlast.value = <<118, 0, 119>>
    /\ vlast.ret = "InvalidValue"
    /\ vlast.binds = 0
    /\ shell_var.kind = "assoc"
    /\ Len(assoc_items(shell_var)) > 0

\* C20: assoc_get(name, key) returned a copy of the value stored under
\* exactly that key, and returned absent when the variable is missing, is
\* not an associative array, or has no entry whose key equals the key.
C20_AssocGetExactKey ==
    vlast.op = "assoc_get" =>
        IF vlast.name = <<65>> /\ EntriesOfKey /= {}
        THEN /\ vlast.ret = "Some"
             /\ \E e \in EntriesOfKey : vlast.got = e.data
        ELSE vlast.ret = "None"
(***************************************************************************)
(* Claims on the scanner's reset and on the cursor's direction, checked    *)
(* under SpecArgs.                                                         *)
(***************************************************************************)
\* The scanner as Args::ensure_reset leaves it when it acts.
ScannerAtRest ==
    /\ getopt.lhead = Null(word_list)
    /\ getopt.lcurrent = Null(word_list)
    /\ getopt.loptend = Null(word_list)
    /\ getopt.sp = 1
    /\ getopt.list_optarg = NoArg
    /\ getopt.list_optopt = 0

\* The cursor was used: one of its operations ran.
CursorUsed == alast.op \notin {"none", "new"}

\* C22, as stated: within one call the scanner's state is reset exactly
\* once, at the first use of the cursor, whichever operation that is
\* (options, argument iteration, is_empty, finished, no_options): once the
\* cursor was used the reset is no longer pending.
C22_Original_ResetAtFirstUse == CursorUsed => ~args.reset_pending

\* C22, amended: within one call the cursor resets the scanner's state at
\* most once, when options or an argument iteration is first asked for:
\* that step leaves the scanner at rest, no later step of the cursor
\* resets it again (a second options or argument iteration leaves the
\* scanner as it is), and is_empty, finished and no_options never make
\* the cursor reset it, so the reset stays pending after them.
C22_ResetOnceAtFirstIteration ==
    [][/\ (iter = "none" /\ iter' # "none") =>
              /\ ~args'.reset_pending
              /\ args.reset_pending => ScannerAtRest'
              /\ ~args.reset_pending => getopt' = getopt
       /\ ~args.reset_pending => ~args'.reset_pending
       /\ (iter' = iter /\ iter = "none") =>
              args'.reset_pending = args.reset_pending
       /\ alast'.op \in {"is_empty", "finished"} /\ alast' # alast =>
              getopt' = getopt]_vars

\* -b 7: the options were scanned up to the payload and abandoned, and a
\* second options() was asked for: the scanner is still past the payload.
C22_Witness ==
    /\ word_list = << <<45, 98>>, <<55>> >>
    /\ ~args.reset_pending
    /\ iter = "options"
    /\ alast.op = "options"
    /\ decoded.opt = 98
    /\ getopt.lcurrent = 3
    /\ getopt.list_optarg = SomeArg(<<55>>)

\* C23, as stated: within one call the cursor never moves backwards, and
\* at most one option scan moves it.
C23_Original_OneParsePass ==
    /\ Cursor \in 1..Null(word_list)
    /\ trail.passes <= 1

\* C23, amended: within one call, for every interleaving of option
\* iteration (complete or abandoned) and argument iteration, each change
\* of the cursor moves it to a later word: an argument iteration moves it
\* by one word, an option scan moves it once, when it ends, to the word
\* where the host's scanner stopped; a later option scan may move it
\* again.
C23_CursorNeverRewinds ==
    [][/\ args'.word_list >= args.word_list
       /\ args'.word_list \in 1..Null(word_list)
       /\ args'.word_list # args.word_list =>
              \/ /\ iter = "raw"
                 /\ args'.word_list = args.word_list + 1
              \/ /\ iter = "options"
                 /\ alast'.op = "options_next"
                 /\ alast'.ret = "None"
                 /\ args'.word_list = getopt'.loptend
                 /\ trail'.passes = trail.passes + 1]_vars

\* -a 7 -a: a first option scan stopped at 7, the argument iteration
\* yielded 7 and was abandoned, and a second option scan took the cursor
\* from the last word to the end of the list.
C23_Witness ==
    /\ word_list = << <<45, 97>>, <<55>>, <<45, 97>> >>
    /\ trail.passes = 2
    /\ alast.op = "options_next"
    /\ alast.ret = "None"
    /\ alast.pre = 3
    /\ Cursor = Null(word_list)

(***************************************************************************)
(* Claims on the states of the store, checked under Spec.                  *)
(***************************************************************************)
\* C21: the store becomes poisoned only through a call whose instance
\* panicked behind the entry point's catch_unwind; no load (a panicking
\* constructor included) and no unload turns an unpoisoned store into a
\* poisoned one, and unload always leaves it unpoisoned.
C21_PoisonOnlyThroughCall ==
    [][/\ (store'.poisoned /\ ~store.poisoned) =>
              /\ last'.op = "call"
              /\ last'.invoked # None
              /\ last'.outcome.kind = "Panic"
       /\ last'.op = "unload" => ~store'.poisoned]_vars

\* C28: a call made while the store holds no instance returns the failure
\* code 1 with a diagnostic, does not enter any instance's call, and leaves
\* the store empty and unpoisoned.
C28_CallOnEmptyStore ==
    (Called /\ last.pre.data = None) =>
        /\ last.ret = 1
        /\ last.diag # <<>>
        /\ last.invoked = None
        /\ store.data = None
        /\ ~store.poisoned

(***************************************************************************)
(* Claim on the iteration of an associative array, checked under SpecVars. *)
(***************************************************************************)
\* The place (bucket, counted from 0, and place in its chain) of the i-th
\* item the iterator has returned comes before that of the j-th in
\* bucket order, and within a bucket in chain order.
YieldedBefore(i, j) ==
    LET a == assoc_iter.yielded[i]
        b == assoc_iter.yielded[j]
    IN  \/ a.bucket < b.bucket
        \/ a.bucket = b.bucket /\ a.place < b.place

\* C27: the items an AssocItemsIterator returns are pairs of the table,
\* each read at its place; they come in bucket order and within a bucket
\* in chain order, no pair twice and none skipped, through empty buckets
\* and along chains of more than one pair; once next has returned None
\* every pair of the table has been returned, and next returns None again.
C27_ItemsInBucketChainOrder ==
    assoc_iter.active =>
        LET T == shell_var.table
            Y == assoc_iter.yielded
            Places == {p \in (0..(NBuckets - 1)) \X (1..Cardinality(StoredKeys)) :
                          p[2] <= Len(T[p[1] + 1])}
            Got == {<<Y[i].bucket, Y[i].place>> : i \in 1..Len(Y)}
        IN  /\ shell_var.kind = "assoc"
            /\ \A i \in 1..Len(Y) :
                  /\ <<Y[i].bucket, Y[i].place>> \in Places
                  /\ Y[i].key = T[Y[i].bucket + 1][Y[i].place].key
                  /\ Y[i].data = T[Y[i].bucket + 1][Y[i].place].data
            /\ \A i, j \in 1..Len(Y) :
                  i < j => (YieldedBefore(i, j) /\ Y[i].key # Y[j].key)
            /\ \A p \in Places, q \in Got :
                  (p[1] < q[1] \/ (p[1] = q[1] /\ p[2] < q[2])) => p \in Got
            /\ assoc_iter.nones >= 1 =>
                  /\ Got = Places
                  /\ Len(Y) = Cardinality(Places)
                  /\ ~AssocItemsIterator_next(T, assoc_iter).some

\* The first bucket is empty and the second holds a chain of two pairs:
\* the iterator has returned both, head first, and then None twice.
C27_Witness ==
    /\ assoc_iter.active
    /\ assoc_iter.nones = 2
    /\ Len(shell_var.table[1]) = 0
    /\ Len(shell_var.table[2]) = 2
    /\ Len(assoc_iter.yielded) = 2
    /\ assoc_iter.yielded[1].bucket = 1
    /\ assoc_iter.yielded[1].place = 1
    /\ assoc_iter.yielded[1].key = shell_var.table[2][1].key
    /\ assoc_iter.yielded[2].bucket = 1
    /\ assoc_iter.yielded[2].place = 2
    /\ assoc_iter.yielded[2].key = shell_var.table[2][2].key
====
